---- MODULE Spec2Model ----
(***************************************************************************)
(* Model of the bot process orchestrator of intelmq:                       *)
(*   - IntelMQProcessManagerNG (lib/process_manager.py), the Local backend *)
(*     that keeps one PID file per bot and asks the OS process table;      *)
(*   - IntelMQControllerNG (lib/controller.py), the fleet controller:      *)
(*     selector resolution, fan-out, restart, enable/disable, queues.      *)
(* The OS process table, the PID directory, the PATH and the pipeline      *)
(* transport are the environment; its moves are the Env* actions.          *)
(***************************************************************************)
EXTENDS Integers, Sequences, FiniteSets, TLC

VARIABLES
    conf,       \* controller._runtime_configuration: bot id -> [enabled, group]
    disk,       \* content of RUNTIME_CONF_FILE
    procs,      \* OS process table: pid -> [bot, st]
    pidfile,    \* PID_DIR: bot id -> 0 (no file), -1 (unparsable content), pid
    pathOK,     \* bot ids whose module shutil.which() resolves in PATH
    piddir,     \* PID_DIR exists
    priv,       \* what the OS allows the orchestrator to do to processes
    restart,    \* position of a running bots_restart call
    queues,     \* pipeline transport: queue name -> number of queued messages
    broken,     \* queues on which an operation of the transport raises
    connected,  \* the transport connection the last queue call opened is open
    sup,        \* the supervision daemon: bot id -> state of its process
    poll,       \* the SupervisorProcessManager.bot_status call in progress:
                \* its bot ("none": no call) and the depth of its recursion
    link,       \* the SupervisorProcessManager object and the daemon's side of
                \* its socket: what _get_supervisor reads and sets
    argv,       \* psutil's cmdline() of the process with PID 1, where the
                \* model keeps the tokens and not only the owner in procs
    ev          \* the last call and what it returned (observation only)

vars == <<conf, disk, procs, pidfile, pathOK, piddir, priv, restart,
          queues, broken, connected, sup, poll, link, argv, ev>>

---------------------------------------------------------------------------
(* Bounds of the model *)

MaxPid == 2          \* PIDs the OS hands out are 1..MaxPid
MaxSelLen == 2       \* longest selector list a caller passes
MaxMsgs == 1         \* messages a queue holds at most

(* Program constants *)

RestartPolls == 10   \* for i in range(10) in bots_restart

Pids == 1..MaxPid

\* All bot ids of the model, in the order sorted() gives them.
IdOrder == <<"b1", "b2", "b3">>
Ids == {IdOrder[i] : i \in 1..Len(IdOrder)}
UnknownId == "nobot"

BOT_GROUP == [collectors |-> "Collector", parsers |-> "Parser",
              experts |-> "Expert", outputs |-> "Output"]
GroupNames == DOMAIN BOT_GROUP

NoFile == 0
Corrupt == 0 - 1

NoProc == [bot |-> "none", st |-> "none"]
\* psutil.STATUS_STOPPED, STATUS_DEAD, STATUS_ZOMBIE
TerminalStatus == {"stopped", "zombie"}
LiveStatus == {"running", "terminating"}

Exceptions == {"BotNotExists", "AttributeError", "TypeError", "NoFreePid"}

Sorted(S) == SelectSeq(IdOrder, LAMBDA x : x \in S)
Range(s) == {s[i] : i \in 1..Len(s)}
Empty == [x \in {} |-> "none"]

\* F(x), with x evaluated once
Let(x, F(_)) == CHOOSE r \in {F(v) : v \in {x}} : TRUE

---------------------------------------------------------------------------
(* IntelMQProcessManagerNG.  Every operator takes the world w it acts on,  *)
(*   w.procs, w.pidfile : the process table and the PID files,             *)
(*   w.log              : the OS calls with an effect made so far,         *)
(*   w.k, w.n           : the wait() oracle: Process.wait(timeout=0) on a  *)
(*                        zombie succeeds when the orchestrator is its     *)
(*                        parent or the parent has reaped it by then; the  *)
(*                        k-th wait of a bot operation is the one that     *)
(*                        succeeds (k = 0: none does), n counts the waits, *)
(* and returns the world it leaves together with its result.               *)

World(k) == [procs |-> procs, pidfile |-> pidfile, log |-> <<>>, k |-> k, n |-> 0]

Logged(w, e, b, pid) == [w EXCEPT !.log = Append(@, [e |-> e, bot |-> b, pid |-> pid])]

_bot_enabled(c, b) == c[b].enabled # "false"

_get_bot_pid(w, b) == IF w.pidfile[b] > 0 THEN w.pidfile[b] ELSE 0 - 1

_remove_pidfile(w, b) ==
    IF w.pidfile[b] # NoFile
    THEN Logged([w EXCEPT !.pidfile[b] = NoFile], "rmpid", b, w.pidfile[b])
    ELSE w

_create_pidfile(w, b, pid) == [w EXCEPT !.pidfile[b] = pid]

\* process.wait(timeout=0): [fin, w]
_process_finished(w, pid) ==
    IF w.procs[pid] = NoProc THEN [fin |-> TRUE, w |-> [w EXCEPT !.n = @ + 1]]
    ELSE IF w.procs[pid].st = "zombie" /\ w.n + 1 = w.k
         THEN [fin |-> TRUE,
               w |-> Logged([w EXCEPT !.n = @ + 1, !.procs[pid] = NoProc],
                            "reap", w.procs[pid].bot, pid)]
         ELSE [fin |-> FALSE, w |-> [w EXCEPT !.n = @ + 1]]

\* _get_bot_process that leaves the PID file of a process that is gone
_get_bot_process_keeps_pidfile(w, c, b) ==
    Let(_get_bot_pid(w, b), LAMBDA pid :
    IF pid = 0 - 1 THEN [p |-> 0, w |-> w]
    ELSE IF w.procs[pid] = NoProc THEN [p |-> 0, w |-> w]
    ELSE IF b \notin pathOK THEN [p |-> 0, w |-> w]
    ELSE IF priv = "nocmdline" THEN [p |-> 0, w |-> w]
    ELSE IF w.procs[pid].bot = b
         THEN IF w.procs[pid].st \in TerminalStatus
              THEN Let(_process_finished(w, pid), LAMBDA f :
                   IF f.fin THEN [p |-> 0, w |-> _remove_pidfile(f.w, b)]
                   ELSE [p |-> pid, w |-> f.w])
              ELSE [p |-> pid, w |-> w]
         ELSE [p |-> 0, w |-> _remove_pidfile(w, b)])

\* [p, w]: p = 0 stands for None
_get_bot_process(w, c, b) ==
    Let(_get_bot_pid(w, b), LAMBDA pid :
    IF pid = 0 - 1 THEN [p |-> 0, w |-> w]
    ELSE IF w.procs[pid] = NoProc THEN [p |-> 0, w |-> _remove_pidfile(w, b)]
    ELSE IF b \notin pathOK THEN [p |-> 0, w |-> w]
    ELSE IF priv = "nocmdline" THEN [p |-> 0, w |-> w]
    ELSE IF w.procs[pid].bot = b
         THEN IF w.procs[pid].st \in TerminalStatus
              THEN Let(_process_finished(w, pid), LAMBDA f :
                   IF f.fin THEN [p |-> 0, w |-> _remove_pidfile(f.w, b)]
                   ELSE [p |-> pid, w |-> f.w])
              ELSE [p |-> pid, w |-> w]
         ELSE [p |-> 0, w |-> _remove_pidfile(w, b)])

\* bot_status that does not look at the enabled flag
bot_status_flag_ignored(w, c, b) ==
    Let(_get_bot_process(w, c, b), LAMBDA g :
    IF g.p # 0
    THEN IF g.w.procs[g.p].st \notin TerminalStatus
         THEN [r |-> "running", w |-> g.w]
         ELSE [r |-> "unknown", w |-> g.w]
    ELSE [r |-> "stopped", w |-> g.w])

\* [r, w]
bot_status(w, c, b) ==
    Let(_get_bot_process(w, c, b), LAMBDA g :
    IF g.p # 0
    THEN IF g.w.procs[g.p].st \notin TerminalStatus
         THEN [r |-> "running", w |-> g.w]
         ELSE [r |-> "unknown", w |-> g.w]
    ELSE IF _bot_enabled(c, b)
         THEN [r |-> "stopped", w |-> g.w]
         ELSE [r |-> "disabled", w |-> g.w])

FreePids(w) == {p \in Pids : w.procs[p] = NoProc}

\* psutil.Popen([module, bot_id]) followed by _create_pidfile; both raise
\* FileNotFoundError, Popen when the module is not found, _create_pidfile
\* (open(filename, 'w')) when PID_DIR does not exist
Spawn(w, c, b) ==
    IF b \notin pathOK THEN [r |-> "failed", w |-> w]
    ELSE IF FreePids(w) = {} THEN [r |-> "NoFreePid", w |-> w]
    ELSE Let(CHOOSE p \in FreePids(w) : \A q \in FreePids(w) : p <= q, LAMBDA pid :
         Let(Logged([w EXCEPT !.procs[pid] = [bot |-> b, st |-> "running"]],
                    "spawn", b, pid), LAMBDA w1 :
         IF piddir THEN [r |-> "starting", w |-> _create_pidfile(w1, b, pid)]
         ELSE [r |-> "failed", w |-> w1]))

\* self._process_finished(self._get_bot_process(bot_id)): [fin, err, w]
FinishBot(w, c, b) ==
    Let(_get_bot_process(w, c, b), LAMBDA g :
    IF g.p = 0 THEN [fin |-> FALSE, err |-> "AttributeError", w |-> g.w]
    ELSE Let(_process_finished(g.w, g.p), LAMBDA f :
         [fin |-> f.fin, err |-> "none", w |-> f.w]))

\* bot_start that returns early for a disabled bot only
bot_start_no_running_check(w, c, b) ==
    Let(bot_status(w, c, b), LAMBDA s :
    IF s.r = "disabled" THEN s
    ELSE IF s.r = "unknown"
         THEN Let(FinishBot(s.w, c, b), LAMBDA f :
              IF f.err # "none" THEN [r |-> f.err, w |-> f.w]
              ELSE IF ~f.fin THEN [r |-> "failed", w |-> f.w]
              ELSE Spawn(f.w, c, b))
         ELSE Spawn(s.w, c, b))

\* bot_start that spawns whether or not the process of an unknown bot ended
bot_start_unknown_spawns(w, c, b) ==
    Let(bot_status(w, c, b), LAMBDA s :
    IF s.r = "disabled" \/ s.r = "running" THEN s
    ELSE IF s.r = "unknown"
         THEN Let(FinishBot(s.w, c, b), LAMBDA f :
              IF f.err # "none" THEN [r |-> f.err, w |-> f.w]
              ELSE Spawn(f.w, c, b))
         ELSE Spawn(s.w, c, b))

bot_start(w, c, b) ==
    Let(bot_status(w, c, b), LAMBDA s :
    IF s.r = "disabled" \/ s.r = "running" THEN s
    ELSE IF s.r = "unknown"
         THEN Let(FinishBot(s.w, c, b), LAMBDA f :
              IF f.err # "none" THEN [r |-> f.err, w |-> f.w]
              ELSE IF ~f.fin THEN [r |-> "failed", w |-> f.w]
              ELSE Spawn(f.w, c, b))
         ELSE Spawn(s.w, c, b))

\* bot_process.terminate(): SIGTERM
Terminate(w, b, pid) ==
    Logged([w EXCEPT !.procs[pid].st = IF @ = "running" THEN "terminating" ELSE @],
           "term", b, pid)

\* bot_stop that waits for the process to end and removes the PID file
bot_stop_waiting(w, c, b) ==
    Let(bot_status(w, c, b), LAMBDA s :
    IF s.r = "disabled" \/ s.r = "stopped" THEN s
    ELSE IF s.r = "unknown"
         THEN Let(FinishBot(s.w, c, b), LAMBDA f :
              IF f.err # "none" THEN [r |-> f.err, w |-> f.w]
              ELSE IF f.fin THEN [r |-> "stopped", w |-> f.w]
              ELSE [r |-> "failed", w |-> f.w])
         ELSE Let(_get_bot_process(s.w, c, b), LAMBDA g :
              IF g.p = 0 THEN [r |-> "AttributeError", w |-> g.w]
              ELSE IF priv = "nosignal" THEN [r |-> "failed", w |-> g.w]
              ELSE [r |-> "stopped",
                    w |-> _remove_pidfile([Terminate(g.w, b, g.p) EXCEPT
                                             !.procs[g.p] = NoProc], b)]))

bot_stop(w, c, b) ==
    Let(bot_status(w, c, b), LAMBDA s :
    IF s.r = "disabled" \/ s.r = "stopped" THEN s
    ELSE IF s.r = "unknown"
         THEN Let(FinishBot(s.w, c, b), LAMBDA f :
              IF f.err # "none" THEN [r |-> f.err, w |-> f.w]
              ELSE IF f.fin THEN [r |-> "stopped", w |-> f.w]
              ELSE [r |-> "failed", w |-> f.w])
         ELSE Let(_get_bot_process(s.w, c, b), LAMBDA g :
              IF g.p = 0 THEN [r |-> "AttributeError", w |-> g.w]
              ELSE IF priv = "nosignal" THEN [r |-> "failed", w |-> g.w]
              ELSE [r |-> "stopping", w |-> Terminate(g.w, b, g.p)]))

\* bot_reload that sends SIGTERM where it sends SIGHUP
bot_reload_terminating(w, c, b) ==
    Let(bot_status(w, c, b), LAMBDA s :
    IF s.r = "running"
    THEN Let(_get_bot_process(s.w, c, b), LAMBDA g :
         IF g.p = 0 THEN [r |-> "AttributeError", w |-> g.w]
         ELSE IF priv = "nosignal" THEN [r |-> "TypeError", w |-> g.w]
         ELSE [r |-> "reloading", w |-> Terminate(g.w, b, g.p)])
    ELSE s)

bot_reload(w, c, b) ==
    Let(bot_status(w, c, b), LAMBDA s :
    IF s.r = "running"
    THEN Let(_get_bot_process(s.w, c, b), LAMBDA g :
         IF g.p = 0 THEN [r |-> "AttributeError", w |-> g.w]
         ELSE IF priv = "nosignal" THEN [r |-> "TypeError", w |-> g.w]
         ELSE [r |-> "reloading", w |-> Logged(g.w, "hup", b, g.p)])
    ELSE s)

---------------------------------------------------------------------------
(* The command line of a process and the two checks of it.  A token is the *)
(* list of its path components: "/usr/bin/mod" is <<"", "usr", "bin",      *)
(* "mod">>, "run" is <<"run">>.                                            *)

MaxArgc == 4
Module == "mod"
module_path == <<"", "usr", "bin", "mod">>
intelmqctl_path == <<"", "usr", "bin", "intelmqctl">>
Interpreter == <<"python3">>
Tokens == {module_path, <<"", "opt", "mod">>, <<"mod">>, intelmqctl_path,
           <<"run">>, <<"b1">>, <<"b2">>, Interpreter}
Cmdlines ==
    {<<>>} \cup UNION {{<<Interpreter>> \o t : t \in [1..n -> Tokens]} : n \in 0..(MaxArgc - 1)}

\* str.endswith('/' + name)
endswith(token, name) == Len(token) >= 2 /\ token[Len(token)] = name

\* _interpret_commandline that takes the module's name for enough
_interpret_commandline_any_bot(cmdline, module, bot_id) ==
    IF Len(cmdline) > 2 /\ endswith(cmdline[2], module) THEN "True"
    ELSE IF Len(cmdline) > 3 /\ endswith(cmdline[2], "intelmqctl") /\ cmdline[3] = <<"run">>
    THEN IF cmdline[4] = <<bot_id>> THEN "True" ELSE "False"
    ELSE IF Len(cmdline) > 1 THEN "could not be interpreted"
    ELSE "Unhandled error"

\* "True", "False" or one of the two error messages
_interpret_commandline(cmdline, module, bot_id) ==
    IF Len(cmdline) > 2 /\ endswith(cmdline[2], module)
    THEN IF cmdline[3] = <<bot_id>> THEN "True" ELSE "False"
    ELSE IF Len(cmdline) > 3 /\ endswith(cmdline[2], "intelmqctl") /\ cmdline[3] = <<"run">>
    THEN IF cmdline[4] = <<bot_id>> THEN "True" ELSE "False"
    ELSE IF Len(cmdline) > 1 THEN "could not be interpreted"
    ELSE "Unhandled error"

\* the condition of IntelMQProcessManagerNG._get_bot_process on argv
is_bot_cmdline(cmdline, bot_id) ==
    \/ Len(cmdline) > 2 /\ cmdline[2] = module_path /\ cmdline[3] = <<bot_id>>
    \/ /\ Len(cmdline) > 3 /\ cmdline[2] = intelmqctl_path
       /\ cmdline[3] = <<"run">> /\ cmdline[4] = <<bot_id>>

\* the bot that _get_bot_process takes a process with this command line for
owner(cmdline) ==
    IF \E b \in Ids : is_bot_cmdline(cmdline, b)
    THEN CHOOSE b \in Ids : is_bot_cmdline(cmdline, b)
    ELSE "other"

---------------------------------------------------------------------------
(* IntelMQProcessManager, the backend of IntelMQController, on the process *)
(* whose command line is argv                                              *)

__check_pid(w, b) == IF w.pidfile[b] > 0 THEN w.pidfile[b] ELSE 0

__status_process(w, pid, b) ==
    IF w.procs[pid] = NoProc \/ w.procs[pid].st = "zombie" THEN "False"
    ELSE IF priv = "nocmdline" THEN "Access denied"
    ELSE _interpret_commandline(argv, Module, b)

\* [r, w]
legacy_bot_status(w, c, b) ==
    Let(__check_pid(w, b), LAMBDA pid :
    Let(IF pid # 0 THEN __status_process(w, pid, b) ELSE "False", LAMBDA status :
    IF pid # 0 /\ status = "True" THEN [r |-> "running", w |-> w]
    ELSE IF status # "False" THEN [r |-> "unknown", w |-> w]
    ELSE IF _bot_enabled(c, b)
    THEN [r |-> "stopped", w |-> IF pid # 0 THEN _remove_pidfile(w, b) ELSE w]
    ELSE [r |-> "disabled", w |-> w]))

\* what bot_stop and bot_reload do before they signal: [r, w], r = "True"
\* when the process is the bot
legacy_find(w, c, b) ==
    Let(__check_pid(w, b), LAMBDA pid :
    IF pid = 0
    THEN [r |-> IF _bot_enabled(c, b) THEN "stopped" ELSE "disabled", w |-> w]
    ELSE Let(__status_process(w, pid, b), LAMBDA status :
         IF status = "False" THEN [r |-> "stopped", w |-> _remove_pidfile(w, b)]
         ELSE IF status # "True" THEN [r |-> "unknown", w |-> w]
         ELSE [r |-> "True", w |-> w]))

\* exited: the process ends within the two seconds bot_stop polls it
legacy_bot_stop(w, c, b, exited) ==
    Let(legacy_find(w, c, b), LAMBDA f :
    IF f.r # "True" THEN f
    ELSE IF priv = "nosignal" THEN [r |-> "running", w |-> w]
    ELSE Let(Terminate(w, b, w.pidfile[b]), LAMBDA w1 :
         IF exited
         THEN [r |-> "stopped",
               w |-> _remove_pidfile([w1 EXCEPT !.procs[w.pidfile[b]] = NoProc], b)]
         ELSE [r |-> "running", w |-> w1]))

legacy_bot_reload(w, c, b) ==
    Let(legacy_find(w, c, b), LAMBDA f :
    IF f.r # "True" THEN f
    ELSE IF priv = "nosignal" THEN [r |-> "running", w |-> w]
    ELSE [r |-> "running", w |-> Logged(w, "hup", b, w.pidfile[b])])

\* bot_start of IntelMQProcessManager: [r, w]
legacy_bot_start(w, c, b) ==
    Let(__check_pid(w, b), LAMBDA pid :
    Let(IF pid # 0 THEN __status_process(w, pid, b) ELSE "False", LAMBDA status :
    IF status = "True" THEN [r |-> "running", w |-> w]
    ELSE IF status # "False" THEN [r |-> "1", w |-> w]
    ELSE Let(IF pid # 0 THEN _remove_pidfile(w, b) ELSE w, LAMBDA w1 :
         IF b \notin pathOK THEN [r |-> "stopped", w |-> w1]
         ELSE IF FreePids(w1) = {} THEN [r |-> "NoFreePid", w |-> w1]
         ELSE Let(CHOOSE p \in FreePids(w1) : \A q \in FreePids(w1) : p <= q, LAMBDA new :
              Let(Logged([w1 EXCEPT !.procs[new] = [bot |-> b, st |-> "running"]],
                         "spawn", b, new), LAMBDA w2 :
              IF piddir THEN [r |-> "running", w |-> _create_pidfile(w2, b, new)]
              ELSE [r |-> "FileNotFoundError", w |-> w2])))))

\* the PID of a process of bot b that has not ended, 0 when there is none
Background(w, b) ==
    IF \E p \in Pids : w.procs[p] # NoProc /\ w.procs[p].bot = b /\ w.procs[p].st # "zombie"
    THEN CHOOSE p \in Pids :
            w.procs[p] # NoProc /\ w.procs[p].bot = b /\ w.procs[p].st # "zombie"
    ELSE 0

\* bot_run from the PID file of the orchestrator on: the PID file is written,
\* the body of the bot runs in the orchestrator (the "inline" entry names the
\* background process alive meanwhile), the file is removed, and the bot is
\* started if it had been paused
legacy_run_inline(w, c, b, paused) ==
    IF ~piddir THEN [r |-> "FileNotFoundError", w |-> w]
    ELSE Let([Logged(w, "inline", b, Background(w, b)) EXCEPT !.pidfile[b] = NoFile],
             LAMBDA w1 :
             IF paused THEN [r |-> "0", w |-> legacy_bot_start(w1, c, b).w]
             ELSE [r |-> "0", w |-> w1])

legacy_bot_run(w, c, b, exited) ==
    Let(__check_pid(w, b), LAMBDA pid :
    Let(IF pid # 0 THEN __status_process(w, pid, b) ELSE "False", LAMBDA status :
    IF pid # 0 /\ status = "True"
    THEN legacy_run_inline(legacy_bot_stop(w, c, b, exited).w, c, b, TRUE)
    ELSE IF status = "False" THEN legacy_run_inline(w, c, b, FALSE)
    ELSE [r |-> "1", w |-> w]))

---------------------------------------------------------------------------
(* SupervisorProcessManager: the state the daemon reports for the process  *)
(* named after the bot, "none" when getProcessInfo faults with BAD_NAME.   *)

ProcessState == {"STOPPED", "STARTING", "RUNNING", "BACKOFF", "STOPPING",
                 "EXITED", "FATAL", "UNKNOWN"}

\* bot_status with the test of the enabled flag inverted
sup_bot_status_inverted(c, b, state) ==
    IF state = "none"
    THEN IF _bot_enabled(c, b) THEN "disabled" ELSE "stopped"
    ELSE IF state = "RUNNING" THEN "running"
    ELSE IF state = "STOPPING" THEN "stopping"
    ELSE "stopped"

\* bot_status that reports a bot without process stopped whatever its flag
sup_bot_status_none_stopped(c, b, state) ==
    IF state = "none" THEN "stopped"
    ELSE IF state = "RUNNING" THEN "running"
    ELSE IF state = "STOPPING" THEN "stopping"
    ELSE "stopped"

\* bot_status once the daemon reports a state other than STARTING
sup_bot_status(c, b, state) ==
    IF state = "none"
    THEN IF ~_bot_enabled(c, b) THEN "disabled" ELSE "stopped"
    ELSE IF state = "RUNNING" THEN "running"
    ELSE IF state = "STOPPING" THEN "stopping"
    ELSE "stopped"

\* What _get_supervisor checks at first use: the socket exists, it is
\* writable, the daemon is at least 3.2.0, its state is RUNNING, Twiddler
\* answers, the process group is defined.
Checks == {"socket", "writable", "api", "daemon", "twiddler", "group"}

\* env: the checks that would pass now; proxy: self.__supervisor_xmlrpc is
\* set; interactive: controller.interactive; alive: the orchestrator process
\* has not exited; passed: the checks that have passed on this object
Link(env, interactive) ==
    [env |-> env, proxy |-> FALSE, interactive |-> interactive, alive |-> TRUE,
     passed |-> {}]

\* controller.abort: [l, err]
abort(l) ==
    IF l.interactive THEN [l |-> [l EXCEPT !.alive = FALSE], err |-> "SystemExit"]
    ELSE [l |-> l, err |-> "ValueError"]

\* the checks after the proxy object was made
_get_supervisor_rest(l) ==
    Let([l EXCEPT !.passed = @ \cup ({"api"} \cap l.env)], LAMBDA l1 :
    IF "daemon" \notin l1.env
    THEN [l |-> [l1 EXCEPT !.alive = ~l1.interactive], err |-> "Exception"]
    ELSE IF "twiddler" \notin l1.env
    THEN abort([l1 EXCEPT !.passed = @ \cup {"daemon"}])
    ELSE IF "group" \notin l1.env
    THEN abort([l1 EXCEPT !.passed = @ \cup {"daemon", "twiddler"}])
    ELSE [l |-> [l1 EXCEPT !.passed = @ \cup {"daemon", "twiddler", "group"}],
          err |-> "none"])

\* [l, err]
_get_supervisor(l) ==
    IF l.proxy THEN [l |-> l, err |-> "none"]
    ELSE IF "socket" \notin l.env THEN abort(l)
    ELSE IF "writable" \notin l.env THEN abort([l EXCEPT !.passed = @ \cup {"socket"}])
    ELSE _get_supervisor_rest([l EXCEPT !.proxy = TRUE,
                                        !.passed = @ \cup {"socket", "writable"}])

\* the depth at which the interpreter ends a recursion with RecursionError
\* (sys.getrecursionlimit(), scaled down)
RecursionLimit == 3

NoPoll == [bot |-> "none", n |-> 0]

is_running(state) == state \in {"STARTING", "RUNNING", "BACKOFF"}

\* the states in which the daemon holds a process that has ended
StoppedStates == {"STOPPED", "EXITED", "FATAL", "UNKNOWN"}

\* A call of the daemon: d = [s, rpc, err] is the state of the bot's process,
\* the calls made so far and the fault raised ("none": no fault).  After a
\* fault nothing more is called.
Daemon(state) == [s |-> state, rpc |-> <<>>, err |-> "none"]

Rpc(d, name, ok, state, fault) ==
    IF d.err # "none" THEN d
    ELSE IF ok THEN [d EXCEPT !.rpc = Append(@, name), !.s = state]
    ELSE [d EXCEPT !.rpc = Append(@, name), !.err = fault]

\* supervisor.stopProcess: waits until the process has stopped
stopProcess(d) ==
    Rpc(d, "stopProcess", is_running(d.s),
        IF d.s = "BACKOFF" THEN "FATAL" ELSE "STOPPED", "NOT_RUNNING")

\* supervisor.signalProcess(name, "HUP")
signalProcess(d) == Rpc(d, "signalProcess", is_running(d.s), d.s, "NOT_RUNNING")

\* twiddler.removeProcessFromGroup
_remove_bot(d) ==
    Rpc(d, "removeProcessFromGroup", d.s \in StoppedStates, "none",
        IF d.s = "none" THEN "BAD_NAME" ELSE "STILL_RUNNING")

\* twiddler.addProgramToGroup: the new process is started at once
_create_and_start_bot(d) ==
    Rpc(d, "addProgramToGroup", d.s = "none", "STARTING", "BAD_NAME")

\* bot_status polls a STARTING process until the daemon reports the state
\* it has settled in
Settled(state, settled) == IF state = "STARTING" THEN settled ELSE state

\* what an operation returns: [r, s, rpc, err]
SupResult(c, b, d, settled) ==
    IF d.err # "none" THEN [r |-> "Fault", s |-> d.s, rpc |-> d.rpc, err |-> d.err]
    ELSE [r |-> sup_bot_status(c, b, Settled(d.s, settled)),
          s |-> Settled(d.s, settled), rpc |-> d.rpc, err |-> "none"]

SupReturn(r, d) == [r |-> r, s |-> d.s, rpc |-> d.rpc, err |-> d.err]

sup_bot_start(c, b, state, settled) ==
    IF state = "RUNNING" THEN SupReturn("running", Daemon(state))
    ELSE IF state # "none" /\ ~is_running(state)
    THEN SupResult(c, b, _create_and_start_bot(_remove_bot(Daemon(state))), settled)
    ELSE SupResult(c, b, _create_and_start_bot(Daemon(state)), settled)

\* bot_stop and bot_reload on a bot that is not running
sup_not_running(c, b, state) ==
    IF state = "none"
    THEN SupReturn(IF ~_bot_enabled(c, b) THEN "disabled" ELSE "stopped", Daemon(state))
    ELSE Let(_remove_bot(Daemon(state)), LAMBDA d :
         SupReturn(IF d.err # "none" THEN "Fault" ELSE "stopped", d))

sup_bot_stop(c, b, state, settled) ==
    IF ~is_running(state) THEN sup_not_running(c, b, state)
    ELSE SupResult(c, b, _remove_bot(stopProcess(Daemon(state))), settled)

sup_bot_reload(c, b, state, settled) ==
    IF ~is_running(state) THEN sup_not_running(c, b, state)
    ELSE SupResult(c, b, signalProcess(Daemon(state)), settled)


\* bot_run: the body of the bot runs in the orchestrator ("inline") between
\* the stop and the start of the background bot
sup_bot_run(c, b, state, settled) ==
    IF ~is_running(state)
    THEN [r |-> "0", s |-> state, rpc |-> <<"inline">>, err |-> "none"]
    ELSE Let(sup_bot_stop(c, b, state, settled), LAMBDA stop :
         IF stop.err # "none" THEN stop
         ELSE Let(sup_bot_start(c, b, stop.s, settled), LAMBDA start :
              [r |-> IF start.err = "none" THEN "0" ELSE "Fault", s |-> start.s,
               rpc |-> stop.rpc \o <<"inline">> \o start.rpc, err |-> start.err]))

---------------------------------------------------------------------------
(* IntelMQControllerNG: selector resolution.  A selector is None, a string *)
(* or a list of strings: [kind |-> "none" | "str" | "list", v |-> <<...>>] *)
(* (a string selector carries its one string in v).                        *)

NoneSel == [kind |-> "none", v |-> <<>>]
StrSel(x) == [kind |-> "str", v |-> <<x>>]
ListSel(l) == [kind |-> "list", v |-> l]

GroupMembers(c, g) == {b \in DOMAIN c : c[b].group = BOT_GROUP[g]}

\* get_bots(value) for a string: [err, bots]
get_bots_str(c, x, allow_groups) ==
    IF allow_groups /\ x \in GroupNames
    THEN [err |-> "none", bots |-> Sorted(GroupMembers(c, x))]
    ELSE IF x \in DOMAIN c
         THEN [err |-> "none", bots |-> <<x>>]
         ELSE [err |-> "BotNotExists", bots |-> <<>>]

\* the loop of get_bots returning the list as built: `return bots`
RECURSIVE get_bots_loop_unsorted(_, _, _, _)
get_bots_loop_unsorted(c, l, allow_groups, acc) ==
    IF l = <<>> THEN [err |-> "none", bots |-> acc]
    ELSE LET value == Head(l)
             isGroup == allow_groups /\ value \in GroupNames
             acc1 == IF isGroup THEN acc \o Sorted(GroupMembers(c, value)) ELSE acc
         IN IF ~isGroup /\ value \notin DOMAIN c
            THEN [err |-> "BotNotExists", bots |-> <<>>]
            ELSE LET r == get_bots_str(c, value, TRUE) IN
                 IF r.err # "none" THEN r
                 ELSE get_bots_loop_unsorted(c, Tail(l), allow_groups, acc1 \o r.bots)

\* the loop of get_bots skipping what it does not know: `continue`
RECURSIVE get_bots_loop_skipping(_, _, _, _)
get_bots_loop_skipping(c, l, allow_groups, acc) ==
    IF l = <<>> THEN [err |-> "none", bots |-> Sorted(Range(acc))]
    ELSE LET value == Head(l)
             isGroup == allow_groups /\ value \in GroupNames
             acc1 == IF isGroup THEN acc \o Sorted(GroupMembers(c, value)) ELSE acc
         IN IF ~isGroup /\ value \notin DOMAIN c
            THEN get_bots_loop_skipping(c, Tail(l), allow_groups, acc)
            ELSE LET r == get_bots_str(c, value, TRUE) IN
                 IF r.err # "none" THEN r
                 ELSE get_bots_loop_skipping(c, Tail(l), allow_groups, acc1 \o r.bots)

\* the loop of get_bots over a list; acc is the list `bots` built so far
RECURSIVE get_bots_loop(_, _, _, _)
get_bots_loop(c, l, allow_groups, acc) ==
    IF l = <<>> THEN [err |-> "none", bots |-> Sorted(Range(acc))]
    ELSE LET value == Head(l)
             isGroup == allow_groups /\ value \in GroupNames
             acc1 == IF isGroup THEN acc \o Sorted(GroupMembers(c, value)) ELSE acc
         IN IF ~isGroup /\ value \notin DOMAIN c
            THEN [err |-> "BotNotExists", bots |-> <<>>]
            ELSE LET r == get_bots_str(c, value, TRUE) IN
                 IF r.err # "none" THEN r
                 ELSE get_bots_loop(c, Tail(l), allow_groups, acc1 \o r.bots)

get_bots(c, sel, allow_groups) ==
    IF sel.kind = "none" \/ (sel.kind = "list" /\ sel.v = <<>>)
    THEN [err |-> "none", bots |-> Sorted(DOMAIN c)]
    ELSE IF sel.kind = "str"
         THEN get_bots_str(c, sel.v[1], allow_groups)
         ELSE get_bots_loop(c, sel.v, allow_groups, <<>>)

---------------------------------------------------------------------------
(* Fan-out: {bot_id: process_manager.op(bot_id) for bot_id in get_bots()}  *)

BotOp(op, w, c, b) ==
    CASE op = "status" -> bot_status(w, c, b)
      [] op = "start"  -> bot_start(w, c, b)
      [] op = "stop"   -> bot_stop(w, c, b)
      [] op = "reload" -> bot_reload(w, c, b)

\* oracle: bot id -> the k of its operation's waits
RECURSIVE FanOut(_, _, _, _, _, _)
FanOut(op, w, c, bots, oracle, acc) ==
    IF bots = <<>> THEN [err |-> "none", ret |-> acc, w |-> w]
    ELSE Let(BotOp(op, [w EXCEPT !.k = oracle[Head(bots)], !.n = 0], c, Head(bots)), LAMBDA o :
         IF o.r \in Exceptions
         THEN [err |-> o.r, ret |-> Empty, w |-> o.w]
         ELSE FanOut(op, o.w, c, Tail(bots), oracle, acc @@ (Head(bots) :> o.r)))

\* bots_status, bots_start, bots_stop, bots_reload: [err, ret, w]
bots_op(op, w, c, sel, oracle) ==
    Let(get_bots(c, sel, TRUE), LAMBDA g :
    IF g.err # "none" THEN [err |-> g.err, ret |-> Empty, w |-> w]
    ELSE FanOut(op, w, c, g.bots, oracle, Empty))

---------------------------------------------------------------------------
(* Enable / disable under edit_runtime_configuration                       *)

\* the loop setting the flag of every configured bot, listed or not
SetEnabled_every_bot(c, bots, v) ==
    [b \in DOMAIN c |-> [c[b] EXCEPT !.enabled = v]]

RECURSIVE SetEnabled(_, _, _)
SetEnabled(c, bots, v) ==
    IF bots = <<>> THEN c
    ELSE SetEnabled([c EXCEPT ![Head(bots)].enabled = v], Tail(bots), v)

\* edit_runtime_configuration that writes the file at every exit
edit_runtime_configuration_always(before, after, d) == [disk |-> after, wrote |-> TRUE]

\* the context manager's exit: [disk, wrote]
edit_runtime_configuration(before, after, d) ==
    IF before # after THEN [disk |-> after, wrote |-> TRUE]
    ELSE [disk |-> d, wrote |-> FALSE]

---------------------------------------------------------------------------
(* Queues *)

QueueName(b) == b \o "-queue"
InternalName(b) == b \o "-queue-internal"
\* every queue name of the model, in the order sorted() gives them; the last
\* is a queue that a bot no longer configured left behind
QueueOrder == <<"b1-queue", "b1-queue-internal", "b2-queue", "b2-queue-internal",
                "b3-queue", "b3-queue-internal", "old-queue">>
QueueNames == Range(QueueOrder)
SortedQueues(S) == SelectSeq(QueueOrder, LAMBDA q : q \in S)

\* get_queues that adds the internal queues to the others when internal is set
get_queues_internal_added(c, sel, internal, all) ==
    Let(get_bots(c, sel, TRUE), LAMBDA g :
    IF g.err # "none" THEN [err |-> g.err, queues |-> <<>>]
    ELSE [err |-> "none",
          queues |-> SortedQueues(
              IF all \/ internal THEN {QueueName(b) : b \in Range(g.bots)}
                          \cup {InternalName(b) : b \in Range(g.bots)}
              ELSE {QueueName(b) : b \in Range(g.bots)})])

\* [err, queues]
get_queues(c, sel, internal, all) ==
    Let(get_bots(c, sel, TRUE), LAMBDA g :
    IF g.err # "none" THEN [err |-> g.err, queues |-> <<>>]
    ELSE [err |-> "none",
          queues |-> SortedQueues(
              IF all THEN {QueueName(b) : b \in Range(g.bots)}
                          \cup {InternalName(b) : b \in Range(g.bots)}
              ELSE IF internal THEN {InternalName(b) : b \in Range(g.bots)}
              ELSE {QueueName(b) : b \in Range(g.bots)})])

\* the loop of queue_clear ending at the first queue that fails
RECURSIVE clear_loop_until_failure(_, _, _)
clear_loop_until_failure(qs, q, acc) ==
    IF qs = <<>> THEN [ret |-> acc, queues |-> q]
    ELSE IF Head(qs) \in broken
         THEN [ret |-> acc @@ (Head(qs) :> "failed"), queues |-> q]
         ELSE clear_loop_until_failure(Tail(qs), [q EXCEPT ![Head(qs)] = 0],
                                       acc @@ (Head(qs) :> "cleared"))

\* the loop of queue_clear: [ret, queues]
RECURSIVE clear_loop(_, _, _)
clear_loop(qs, q, acc) ==
    IF qs = <<>> THEN [ret |-> acc, queues |-> q]
    ELSE IF Head(qs) \in broken
         THEN clear_loop(Tail(qs), q, acc @@ (Head(qs) :> "failed"))
         ELSE clear_loop(Tail(qs), [q EXCEPT ![Head(qs)] = 0],
                         acc @@ (Head(qs) :> "cleared"))

\* [err, ret, queues, open]: open tells whether the call leaves the
\* connection of _connect_pipeline open; the body of the with statement
\* raises nothing, so the generator goes on to pipeline.disconnect()
queue_clear(c, q, sel, internal, all) ==
    Let(get_queues(c, sel, internal, all), LAMBDA g :
    IF g.err # "none" THEN [err |-> g.err, ret |-> Empty, queues |-> q, open |-> FALSE]
    ELSE Let(clear_loop(g.queues, q, Empty), LAMBDA r :
         [err |-> "none", ret |-> r.ret, queues |-> r.queues, open |-> FALSE]))

\* [err, ret, open]: count_queued_messages(*queues) raises inside the with
\* statement when the transport fails on one of the queues; the generator of
\* _connect_pipeline then ends at its yield, before pipeline.disconnect()
queue_status(c, q, sel, internal, all) ==
    Let(get_queues(c, sel, internal, all), LAMBDA g :
    IF g.err # "none" THEN [err |-> g.err, ret |-> Empty, open |-> FALSE]
    ELSE IF \E x \in Range(g.queues) : x \in broken
         THEN [err |-> "PipelineError", ret |-> Empty, open |-> TRUE]
         ELSE [err |-> "none", ret |-> [x \in Range(g.queues) |-> q[x]], open |-> FALSE])

\* the queues that self.get_queues(all=True) names
Topology(c) == Range(get_queues(c, NoneSel, FALSE, TRUE).queues)

\* the queues with messages, as nonempty_queues() reports them
nonempty_queues(q) == {x \in QueueNames : q[x] > 0}

\* the loop of queue_prune over orphaned_queues, in whatever order the set
\* gives them: clear_queue unless dryrun, then the entry "deleted".  When
\* clear_queue raises on a queue the exception leaves the with statement
\* (no disconnect); done are the queues cleared until then.
prune_loop(q, orphaned_queues, dryrun, done) ==
    IF ~dryrun /\ orphaned_queues \cap broken # {}
    THEN [err |-> "PipelineError", ret |-> Empty, open |-> TRUE,
          queues |-> [x \in QueueNames |-> IF x \in done THEN 0 ELSE q[x]]]
    ELSE [err |-> "none", ret |-> [x \in orphaned_queues |-> "deleted"], open |-> FALSE,
          queues |-> [x \in QueueNames |->
                        IF x \in orphaned_queues /\ ~dryrun THEN 0 ELSE q[x]]]

\* queue_prune that leaves the topology out of account
queue_prune_forced(c, q, force, dryrun, listed, done) ==
    IF ~listed THEN [err |-> "PipelineError", ret |-> Empty, queues |-> q, open |-> TRUE]
    ELSE prune_loop(q, nonempty_queues(q), dryrun, done)

\* [err, ret, queues, open].  listed: nonempty_queues() returns (it raises
\* otherwise, inside the with statement)
queue_prune(c, q, force, dryrun, listed, done) ==
    IF ~listed THEN [err |-> "PipelineError", ret |-> Empty, queues |-> q, open |-> TRUE]
    ELSE prune_loop(q, {x \in nonempty_queues(q) : force \/ x \notin Topology(c)},
                    dryrun, done)

---------------------------------------------------------------------------
(* Calls of the controller.  ev records the call made by the step and what *)
(* it returned: err is the exception that ended it ("none": it returned    *)
(* ret), log the OS calls with an effect it made, wrote whether it wrote   *)
(* RUNTIME_CONF_FILE, opt the keyword arguments that were true, disk0 what *)
(* RUNTIME_CONF_FILE held when the call was made.                          *)

Event(op, sel, err, ret, log, wrote) ==
    [op |-> op, sel |-> sel, opt |-> {}, err |-> err, ret |-> ret, log |-> log,
     wrote |-> wrote, disk0 |-> disk]
EnvEvent == Event("env", NoneSel, "none", Empty, <<>>, FALSE)

\* bots_restart is not running; otherwise: the bots its argument resolved to,
\* the bots that are stopping, the rounds of the polling loop done, the
\* status the last round returned
Idle == [phase |-> "idle", targets |-> <<>>, bots |-> <<>>, i |-> 0, status |-> Empty]

\* the outcomes of wait() that the process table allows
Zombies == {b \in Ids : pidfile[b] > 0 /\ procs[pidfile[b]].st = "zombie"}
Oracles == {[b \in Ids |-> IF b \in Zombies THEN o[b] ELSE 0] : o \in [Zombies -> 0..3]}

CallOp(op, sel) ==
    /\ restart = Idle
    /\ \E oracle \in Oracles :
       \E o \in {bots_op(op, World(0), conf, sel, oracle)} :
          /\ o.err # "NoFreePid"
          /\ procs' = o.w.procs
          /\ pidfile' = o.w.pidfile
          /\ ev' = Event(op, sel, o.err, o.ret, o.w.log, FALSE)
    /\ UNCHANGED <<conf, disk, pathOK, priv, restart, queues, broken, sup, connected, piddir, argv, poll, link>>

BotsStatus(sel) == CallOp("status", sel)
BotsStart(sel) == CallOp("start", sel)
BotsStop(sel) == CallOp("stop", sel)
BotsReload(sel) == CallOp("reload", sel)

\* bots_enable(bots, start) and bots_disable(bots, stop); opt is {"start"},
\* {"stop"} or empty
EditEnabled(op, sel, v, then) ==
    /\ restart = Idle
    /\ \E g \in {get_bots(conf, sel, TRUE)} :
       IF g.err # "none"
       THEN /\ ev' = [Event(op, sel, g.err, Empty, <<>>, FALSE) EXCEPT
                          !.opt = {then} \ {"status"}]
            /\ UNCHANGED <<conf, disk, procs, pidfile>>
       ELSE \E oracle \in Oracles :
            \E c1 \in {SetEnabled(conf, g.bots, v)} :
            \E e \in {edit_runtime_configuration(conf, c1, disk)} :
            \E o \in {bots_op(then, World(0), c1, ListSel(g.bots), oracle)} :
               /\ o.err # "NoFreePid"
               /\ conf' = c1
               /\ disk' = e.disk
               /\ procs' = o.w.procs
               /\ pidfile' = o.w.pidfile
               /\ ev' = [Event(op, sel, o.err, o.ret, o.w.log, e.wrote) EXCEPT
                             !.opt = {then} \ {"status"}]
    /\ UNCHANGED <<pathOK, priv, restart, queues, broken, sup, connected, piddir, argv, poll, link>>

BotsEnable(sel, start) ==
    EditEnabled("enable", sel, "true", IF start THEN "start" ELSE "status")
BotsDisable(sel, stop) ==
    EditEnabled("disable", sel, "false", IF stop THEN "stop" ELSE "status")

\* bots_restart up to its polling loop: get_bots, bots_stop, the filter
RestartBegin(sel) ==
    /\ restart = Idle
    /\ \E g \in {get_bots(conf, sel, TRUE)} :
       IF g.err # "none"
       THEN /\ ev' = Event("restart", sel, g.err, Empty, <<>>, FALSE)
            /\ UNCHANGED <<procs, pidfile, restart>>
       ELSE \E oracle \in Oracles :
            \E o \in {bots_op("stop", World(0), conf, ListSel(g.bots), oracle)} :
               /\ procs' = o.w.procs
               /\ pidfile' = o.w.pidfile
               /\ IF o.err # "none"
                  THEN /\ ev' = Event("restart", sel, o.err, Empty, o.w.log, FALSE)
                       /\ UNCHANGED restart
                  ELSE /\ ev' = Event("restart_stop", sel, "none", o.ret, o.w.log, FALSE)
                       /\ restart' = [phase |-> "poll", targets |-> g.bots,
                                      i |-> 0, status |-> Empty,
                                      bots |-> SelectSeq(g.bots, LAMBDA b : o.ret[b] = "stopping")]
    /\ UNCHANGED <<conf, disk, pathOK, priv, queues, broken, sup, connected, piddir, argv, poll, link>>

\* the polling loop with its test inverted: it leaves while a bot is running
RestartPoll_break_inverted ==
    /\ restart.phase = "poll"
    /\ \E oracle \in Oracles :
       \E o \in {bots_op("status", World(0), conf, ListSel(restart.bots), oracle)} :
          /\ procs' = o.w.procs
          /\ pidfile' = o.w.pidfile
          /\ ev' = Event("restart_poll", ListSel(restart.bots), o.err, o.ret, o.w.log, FALSE)
          /\ IF o.err # "none" THEN restart' = Idle
             ELSE IF \E b \in DOMAIN o.ret : o.ret[b] = "running"
                  THEN restart' = [restart EXCEPT !.phase = "start", !.status = o.ret]
                  ELSE restart' = [restart EXCEPT !.i = @ + 1, !.status = o.ret,
                                     !.phase = IF restart.i + 1 = RestartPolls
                                               THEN "start" ELSE "poll"]
    /\ UNCHANGED <<conf, disk, pathOK, priv, queues, broken, sup, connected, piddir, argv, poll, link>>

\* the polling loop calling bots_stop again where it calls bots_status
RestartPoll_stopping_again ==
    /\ restart.phase = "poll"
    /\ \E oracle \in Oracles :
       \E o \in {bots_op("stop", World(0), conf, ListSel(restart.bots), oracle)} :
          /\ procs' = o.w.procs
          /\ pidfile' = o.w.pidfile
          /\ ev' = Event("restart_poll", ListSel(restart.bots), o.err, o.ret, o.w.log, FALSE)
          /\ IF o.err # "none" THEN restart' = Idle
             ELSE IF \A b \in DOMAIN o.ret : o.ret[b] # "running"
                  THEN restart' = [restart EXCEPT !.phase = "start", !.status = o.ret]
                  ELSE restart' = [restart EXCEPT !.i = @ + 1, !.status = o.ret,
                                     !.phase = IF restart.i + 1 = RestartPolls
                                               THEN "start" ELSE "poll"]
    /\ UNCHANGED <<conf, disk, pathOK, priv, queues, broken, sup, connected, piddir, argv, poll, link>>

\* the polling loop as `while True`: it counts no rounds
RestartPoll_unbounded ==
    /\ restart.phase = "poll"
    /\ \E oracle \in Oracles :
       \E o \in {bots_op("status", World(0), conf, ListSel(restart.bots), oracle)} :
          /\ procs' = o.w.procs
          /\ pidfile' = o.w.pidfile
          /\ ev' = Event("restart_poll", ListSel(restart.bots), o.err, o.ret, o.w.log, FALSE)
          /\ IF o.err # "none" THEN restart' = Idle
             ELSE IF \A b \in DOMAIN o.ret : o.ret[b] # "running"
                  THEN restart' = [restart EXCEPT !.phase = "start", !.status = o.ret]
                  ELSE restart' = [restart EXCEPT !.status = o.ret]
    /\ UNCHANGED <<conf, disk, pathOK, priv, queues, broken, sup, connected, piddir, argv, poll, link>>

\* one round of `for i in range(10)`: bots_status, break or sleep
RestartPoll ==
    /\ restart.phase = "poll"
    /\ \E oracle \in Oracles :
       \E o \in {bots_op("status", World(0), conf, ListSel(restart.bots), oracle)} :
          /\ procs' = o.w.procs
          /\ pidfile' = o.w.pidfile
          /\ ev' = Event("restart_poll", ListSel(restart.bots), o.err, o.ret, o.w.log, FALSE)
          /\ IF o.err # "none" THEN restart' = Idle
             ELSE IF \A b \in DOMAIN o.ret : o.ret[b] # "running"
                  THEN restart' = [restart EXCEPT !.phase = "start", !.status = o.ret]
                  ELSE restart' = [restart EXCEPT !.i = @ + 1, !.status = o.ret,
                                     !.phase = IF restart.i + 1 = RestartPolls
                                               THEN "start" ELSE "poll"]
    /\ UNCHANGED <<conf, disk, pathOK, priv, queues, broken, sup, connected, piddir, argv, poll, link>>

\* return self.bots_start(stopping_bots)
RestartStart ==
    /\ restart.phase = "start"
    /\ \E oracle \in Oracles :
       \E o \in {bots_op("start", World(0), conf, ListSel(restart.bots), oracle)} :
          /\ o.err # "NoFreePid"
          /\ procs' = o.w.procs
          /\ pidfile' = o.w.pidfile
          /\ ev' = Event("restart", ListSel(restart.bots), o.err, o.ret, o.w.log, FALSE)
    /\ restart' = Idle
    /\ UNCHANGED <<conf, disk, pathOK, priv, queues, broken, sup, connected, piddir, argv, poll, link>>

\* the keyword arguments of a queue call that are true
QueueOpts(internal, all) ==
    {x \in {"internal", "all"} : (x = "internal" /\ internal) \/ (x = "all" /\ all)}

QueueClear(sel, internal, all) ==
    /\ restart = Idle
    /\ \E o \in {queue_clear(conf, queues, sel, internal, all)} :
       /\ queues' = o.queues
       /\ connected' = o.open
       /\ ev' = [Event("queue_clear", sel, o.err, o.ret, <<>>, FALSE) EXCEPT
                   !.opt = QueueOpts(internal, all)]
    /\ UNCHANGED <<conf, disk, procs, pidfile, pathOK, priv, restart, broken, sup, piddir, argv, poll, link>>

QueueStatus(sel, internal, all) ==
    /\ restart = Idle
    /\ \E o \in {queue_status(conf, queues, sel, internal, all)} :
       /\ connected' = o.open
       /\ ev' = [Event("queue_status", sel, o.err, o.ret, <<>>, FALSE) EXCEPT
                   !.opt = QueueOpts(internal, all)]
    /\ UNCHANGED <<conf, disk, procs, pidfile, pathOK, priv, restart, queues, broken, sup, piddir, argv, poll, link>>

\* done: the queues that the loop cleared before clear_queue raised (none
\* when nothing raises)
QueuePrune(force, dryrun) ==
    /\ restart = Idle
    /\ \E listed \in BOOLEAN, done \in SUBSET (nonempty_queues(queues) \ broken) :
       \E o \in {queue_prune(conf, queues, force, dryrun, listed, done)} :
          /\ o.err = "none" => done = {}
          /\ done \subseteq {x \in QueueNames : force \/ x \notin Topology(conf)}
          /\ queues' = o.queues
          /\ connected' = o.open
          /\ ev' = [Event("queue_prune", NoneSel, o.err, o.ret, <<>>, FALSE) EXCEPT
                      !.opt = {x \in {"force", "dryrun"} :
                                  (x = "force" /\ force) \/ (x = "dryrun" /\ dryrun)}]
    /\ UNCHANGED <<conf, disk, procs, pidfile, pathOK, priv, restart, broken, sup, piddir, argv, poll, link>>

\* get_queues on its own; ret is the list it returns
GetQueues(sel, internal, all) ==
    /\ restart = Idle
    /\ \E g \in {get_queues(conf, sel, internal, all)} :
       ev' = [Event("get_queues", sel, g.err, g.queues, <<>>, FALSE) EXCEPT
                !.opt = QueueOpts(internal, all)]
    /\ UNCHANGED <<conf, disk, procs, pidfile, pathOK, priv, restart, queues, broken, sup, connected, piddir, argv, poll, link>>

\* get_bots on its own; ret is the list it returns
GetBots(sel) ==
    /\ restart = Idle
    /\ \E g \in {get_bots(conf, sel, TRUE)} :
       ev' = Event("get_bots", sel, g.err, g.bots, <<>>, FALSE)
    /\ UNCHANGED <<conf, disk, procs, pidfile, pathOK, priv, restart, queues, broken, sup, connected, piddir, argv, poll, link>>

\* SupervisorProcessManager.bot_status: while the daemon reports STARTING it
\* sleeps and asks again, so it answers from the state the start ends in
\* One invocation of SupervisorProcessManager.bot_status: it asks the daemon
\* for the state and returns, or, while the state is STARTING, sleeps and
\* calls itself.
SupStatusQuery(b) ==
    /\ restart = Idle
    /\ poll.bot \in {"none", b}
    /\ IF sup[b] # "STARTING"
       THEN /\ poll' = NoPoll
            /\ ev' = Event("sup_status_poll", StrSel(b), "none",
                           b :> sup_bot_status(conf, b, sup[b]), <<>>, FALSE)
       ELSE IF poll.n + 1 >= RecursionLimit
       THEN /\ poll' = NoPoll
            /\ ev' = Event("sup_status_poll", StrSel(b), "RecursionError", Empty, <<>>, FALSE)
       ELSE /\ poll' = [bot |-> b, n |-> poll.n + 1]
            /\ ev' = ev
    /\ UNCHANGED <<conf, disk, procs, pidfile, pathOK, priv, restart, queues, broken, sup, connected, piddir, argv, link>>

\* _get_process_state: the first thing every operation on a bot does; the
\* call of getProcessInfo is made once _get_supervisor has returned
SupGetProcessState(b) ==
    /\ link.alive
    /\ \E g \in {_get_supervisor(link)} :
          /\ link' = g.l
          /\ ev' = Event("_get_process_state", StrSel(b), g.err,
                         IF g.err = "none" THEN b :> sup[b] ELSE Empty,
                         IF g.err = "none" THEN <<"getProcessInfo">> ELSE <<>>, FALSE)
    /\ UNCHANGED <<conf, disk, procs, pidfile, pathOK, priv, restart, queues, broken, sup, connected, piddir, argv, poll>>

\* bot_start, bot_stop or bot_reload of SupervisorProcessManager on one bot
SupOp(op, b, o) ==
    /\ restart = Idle
    /\ sup' = [sup EXCEPT ![b] = o.s]
    /\ ev' = Event(op, StrSel(b), o.err, IF o.err = "none" THEN b :> o.r ELSE Empty,
                   o.rpc, FALSE)
    /\ UNCHANGED <<conf, disk, procs, pidfile, pathOK, priv, restart, queues, broken, connected, piddir, argv, poll, link>>

SettledStates == {"RUNNING", "BACKOFF", "STOPPING"}

SupBotStart(b) ==
    \E settled \in SettledStates :
    \E o \in {sup_bot_start(conf, b, sup[b], settled)} : SupOp("sup_start", b, o)

SupBotStop(b) ==
    \E settled \in SettledStates :
    \E o \in {sup_bot_stop(conf, b, sup[b], settled)} : SupOp("sup_stop", b, o)

SupBotReload(b) ==
    \E settled \in SettledStates :
    \E o \in {sup_bot_reload(conf, b, sup[b], settled)} : SupOp("sup_reload", b, o)

\* _interpret_commandline on the command line of the process
InterpretCommandline(b) ==
    /\ ev' = Event("_interpret_commandline", StrSel(b), "none",
                   b :> _interpret_commandline(argv, Module, b), <<>>, FALSE)
    /\ UNCHANGED <<conf, disk, procs, pidfile, pathOK, priv, restart, queues, broken, sup, connected, piddir, argv, poll, link>>

\* the condition of IntelMQProcessManagerNG._get_bot_process on the same
IsBotCmdline(b) ==
    /\ ev' = Event("is_bot_cmdline", StrSel(b), "none",
                   b :> IF is_bot_cmdline(argv, b) THEN "True" ELSE "False", <<>>, FALSE)
    /\ UNCHANGED <<conf, disk, procs, pidfile, pathOK, priv, restart, queues, broken, sup, connected, piddir, argv, poll, link>>

\* an operation of IntelMQProcessManager on one bot
LegacyOp(op, b, o) ==
    /\ procs' = o.w.procs
    /\ pidfile' = o.w.pidfile
    /\ ev' = Event(op, StrSel(b), "none", b :> o.r, o.w.log, FALSE)
    /\ UNCHANGED <<conf, disk, pathOK, priv, restart, queues, broken, sup, connected, piddir, argv, poll, link>>

LegacyBotStatus(b) ==
    \E o \in {legacy_bot_status(World(0), conf, b)} : LegacyOp("legacy_status", b, o)

LegacyBotStop(b) ==
    \E exited \in BOOLEAN :
    \E o \in {legacy_bot_stop(World(0), conf, b, exited)} : LegacyOp("legacy_stop", b, o)

LegacyBotReload(b) ==
    \E o \in {legacy_bot_reload(World(0), conf, b)} : LegacyOp("legacy_reload", b, o)

SupBotRun(b) ==
    \E settled \in SettledStates :
    \E o \in {sup_bot_run(conf, b, sup[b], settled)} : SupOp("sup_run", b, o)

LegacyBotRun(b) ==
    \E exited \in BOOLEAN :
    \E o \in {legacy_bot_run(World(0), conf, b, exited)} :
       /\ o.r # "NoFreePid"
       /\ LegacyOp("legacy_run", b, o)

LegacyBotStart(b) ==
    \E o \in {legacy_bot_start(World(0), conf, b)} :
       /\ o.r # "NoFreePid"
       /\ LegacyOp("legacy_start", b, o)

SupBotStatus(b) ==
    /\ restart = Idle
    /\ \E state \in (IF sup[b] = "STARTING" THEN {"RUNNING", "BACKOFF", "STOPPING"}
                     ELSE {sup[b]}) :
          /\ sup' = [sup EXCEPT ![b] = state]
          /\ ev' = Event("sup_status", StrSel(b), "none",
                         b :> sup_bot_status(conf, b, state), <<>>, FALSE)
    /\ UNCHANGED <<conf, disk, procs, pidfile, pathOK, priv, restart, queues, broken, connected, piddir, argv, poll, link>>

---------------------------------------------------------------------------
(* The environment: bot processes run on their own, other processes come   *)
(* and go, PATH and the orchestrator's privileges change between calls,    *)
(* bots feed the queues.                                                   *)

EnvStep == ev' = EnvEvent

\* a process ends: it stays a zombie until it is reaped, or is reaped at once
EnvExit(p, reaped) ==
    /\ procs[p] # NoProc
    /\ procs[p].st # "zombie"
    /\ procs[p].bot = "other" => reaped
    /\ procs' = [procs EXCEPT ![p] = IF reaped THEN NoProc ELSE [@ EXCEPT !.st = "zombie"]]
    /\ EnvStep
    /\ UNCHANGED <<conf, disk, pidfile, pathOK, priv, restart, queues, broken, sup, connected, piddir, argv, poll, link>>

\* the parent of a zombie reaps it
EnvReap(p) ==
    /\ procs[p].st = "zombie"
    /\ procs' = [procs EXCEPT ![p] = NoProc]
    /\ EnvStep
    /\ UNCHANGED <<conf, disk, pidfile, pathOK, priv, restart, queues, broken, sup, connected, piddir, argv, poll, link>>

\* SIGSTOP / SIGCONT sent to a bot process by somebody
EnvSigStop(p) ==
    /\ procs[p].st \in LiveStatus
    /\ procs[p].bot # "other"
    /\ procs' = [procs EXCEPT ![p].st = "stopped"]
    /\ EnvStep
    /\ UNCHANGED <<conf, disk, pidfile, pathOK, priv, restart, queues, broken, sup, connected, piddir, argv, poll, link>>

EnvSigCont(p) ==
    /\ procs[p].st = "stopped"
    /\ procs' = [procs EXCEPT ![p].st = "running"]
    /\ EnvStep
    /\ UNCHANGED <<conf, disk, pidfile, pathOK, priv, restart, queues, broken, sup, connected, piddir, argv, poll, link>>

\* an unrelated process is started and gets a free PID
EnvOther(p) ==
    /\ procs[p] = NoProc
    /\ procs' = [procs EXCEPT ![p] = [bot |-> "other", st |-> "running"]]
    /\ EnvStep
    /\ UNCHANGED <<conf, disk, pidfile, pathOK, priv, restart, queues, broken, sup, connected, piddir, argv, poll, link>>

\* the module of bot b leaves or enters PATH
EnvPath(b) ==
    /\ pathOK' = IF b \in pathOK THEN pathOK \ {b} ELSE pathOK \cup {b}
    /\ EnvStep
    /\ UNCHANGED <<conf, disk, procs, pidfile, priv, restart, queues, broken, sup, connected, piddir, argv, poll, link>>

EnvPriv(v) ==
    /\ v # priv
    /\ priv' = v
    /\ EnvStep
    /\ UNCHANGED <<conf, disk, procs, pidfile, pathOK, restart, queues, broken, sup, connected, piddir, argv, poll, link>>

EnvEnqueue(q) ==
    /\ queues[q] < MaxMsgs
    /\ queues' = [queues EXCEPT ![q] = @ + 1]
    /\ EnvStep
    /\ UNCHANGED <<conf, disk, procs, pidfile, pathOK, priv, restart, broken, sup, connected, piddir, argv, poll, link>>

EnvBreak(q) ==
    /\ broken' = IF q \in broken THEN broken \ {q} ELSE broken \cup {q}
    /\ EnvStep
    /\ UNCHANGED <<conf, disk, procs, pidfile, pathOK, priv, restart, queues, sup, connected, piddir, argv, poll, link>>

\* the daemon's process changes state, is added to or removed from the group
EnvSup(b, state) ==
    /\ state # sup[b]
    /\ sup' = [sup EXCEPT ![b] = state]
    /\ EnvStep
    /\ UNCHANGED <<conf, disk, procs, pidfile, pathOK, priv, restart, queues, broken, connected, piddir, argv, poll, link>>

\* the daemon's side changes: one of the checks would now end otherwise
EnvLink(c) ==
    /\ link' = [link EXCEPT !.env = IF c \in @ THEN @ \ {c} ELSE @ \cup {c}]
    /\ EnvStep
    /\ UNCHANGED <<conf, disk, procs, pidfile, pathOK, priv, restart, queues, broken, sup, connected, piddir, argv, poll>>

---------------------------------------------------------------------------
(* Initial states and specifications *)

Privs == {"full", "nosignal", "nocmdline"}

BotConf(en, grp) == [enabled |-> en, group |-> grp]

InitOS ==
    /\ procs = [p \in Pids |-> NoProc]
    /\ pathOK = Ids
    /\ piddir = TRUE
    /\ argv = <<>>
    /\ poll = NoPoll
    /\ link = Link(Checks, TRUE)
    /\ priv = "full"
    /\ restart = Idle
    /\ queues = [q \in QueueNames |-> 0]
    /\ broken = {}
    /\ connected = FALSE
    /\ sup = [b \in Ids |-> "none"]
    /\ ev = EnvEvent

\* The Local backend on one bot, with everything the OS can do to it.
InitLocal ==
    /\ \E en \in {"true", "false"} :
          conf = ("b1" :> BotConf(en, "Collector")) @@ ("b2" :> BotConf("true", "Parser"))
    /\ disk = conf
    /\ \E f \in {NoFile, Corrupt} : pidfile = [b \in Ids |-> IF b = "b1" THEN f ELSE NoFile]
    /\ InitOS

Bot1 == StrSel("b1")

EnvProcs ==
    \/ \E p \in Pids, reaped \in BOOLEAN : EnvExit(p, reaped)
    \/ \E p \in Pids : EnvReap(p)
    \/ \E p \in Pids : EnvSigStop(p)
    \/ \E p \in Pids : EnvSigCont(p)
    \/ \E p \in Pids : EnvOther(p)

NextLocal ==
    \/ BotsStatus(Bot1)
    \/ BotsStart(Bot1)
    \/ BotsStop(Bot1)
    \/ BotsReload(Bot1)
    \/ EnvProcs
    \/ EnvPath("b1")
    \/ \E v \in Privs : EnvPriv(v)

SpecLocal == InitLocal /\ [][NextLocal]_vars

\* Status of one bot under both backends while its enabled flag changes.
NextStatus ==
    \/ BotsStatus(Bot1)
    \/ BotsStart(Bot1)
    \/ BotsStop(Bot1)
    \/ \E stop \in BOOLEAN : BotsDisable(Bot1, stop)
    \/ \E start \in BOOLEAN : BotsEnable(Bot1, start)
    \/ EnvProcs
    \/ SupBotStatus("b1")
    \/ \E state \in ProcessState \cup {"none"} : EnvSup("b1", state)

SpecStatus == InitLocal /\ [][NextStatus]_vars
\* Restart of a fleet of two bots whose processes end when they choose to.
InitRestart ==
    /\ conf = ("b1" :> BotConf("true", "Collector")) @@ ("b2" :> BotConf("true", "Parser"))
    /\ disk = conf
    /\ pidfile = [b \in Ids |-> NoFile]
    /\ InitOS

NextRestart ==
    \/ BotsStart(NoneSel)
    \/ BotsStop(Bot1)
    \/ \E sel \in {NoneSel, Bot1} : RestartBegin(sel)
    \/ RestartPoll
    \/ RestartStart
    \/ \E p \in Pids, reaped \in BOOLEAN : EnvExit(p, reaped)

SpecRestart == InitRestart /\ [][NextRestart]_vars

\* The same with the thread of bots_restart going on: the sleep of a round
\* ends, the next statement runs.  Nothing makes a bot's process end.
SpecRestartFair == SpecRestart /\ WF_vars(RestartPoll) /\ WF_vars(RestartStart)

\* Stop and the status polls that follow it: two bots run, enabled or not;
\* a process that was sent SIGTERM ends, a zombie is reaped by its parent,
\* and the caller keeps polling.
InitStop ==
    /\ \E en \in {"true", "false"} :
          conf = ("b1" :> BotConf(en, "Collector")) @@ ("b2" :> BotConf("true", "Parser"))
    /\ disk = conf
    /\ procs = [p \in Pids |-> IF p = 1 THEN [bot |-> "b1", st |-> "running"]
                               ELSE IF p = 2 THEN [bot |-> "b2", st |-> "running"]
                               ELSE NoProc]
    /\ pidfile = [b \in Ids |-> IF b = "b1" THEN 1 ELSE IF b = "b2" THEN 2 ELSE NoFile]
    /\ pathOK = Ids
    /\ piddir = TRUE
    /\ argv = <<>>
    /\ poll = NoPoll
    /\ link = Link(Checks, TRUE)
    /\ priv = "full"
    /\ restart = Idle
    /\ queues = [q \in QueueNames |-> 0]
    /\ broken = {}
    /\ connected = FALSE
    /\ sup = [b \in Ids |-> "none"]
    /\ ev = EnvEvent

\* a process that was sent SIGTERM ends
EnvExitTerminating ==
    \E p \in Pids, reaped \in BOOLEAN : procs[p].st = "terminating" /\ EnvExit(p, reaped)

NextStop ==
    \/ \E sel \in {NoneSel, Bot1} : BotsStop(sel)
    \/ \E sel \in {NoneSel, Bot1} : BotsStatus(sel)
    \/ EnvExitTerminating
    \/ \E p \in Pids : EnvReap(p)
    \/ \E p \in Pids : EnvOther(p)

SpecStop ==
    /\ InitStop
    /\ [][NextStop]_vars
    /\ WF_vars(BotsStatus(Bot1))
    /\ WF_vars(EnvExitTerminating)
    /\ WF_vars(\E p \in Pids : EnvReap(p))

\* Start of one bot whose module comes and goes in PATH, under a process
\* manager whose constructor found PID_DIR or could not create it.
InitSpawn ==
    /\ \E en \in {"true", "false"} :
          conf = ("b1" :> BotConf(en, "Collector")) @@ ("b2" :> BotConf("true", "Parser"))
    /\ disk = conf
    /\ procs = [p \in Pids |-> NoProc]
    /\ piddir \in BOOLEAN
    /\ argv = <<>>
    /\ poll = NoPoll
    /\ link = Link(Checks, TRUE)
    /\ \E f \in {NoFile, Corrupt} :
          pidfile = [b \in Ids |-> IF b = "b1" /\ piddir THEN f ELSE NoFile]
    /\ pathOK = Ids
    /\ priv = "full"
    /\ restart = Idle
    /\ queues = [q \in QueueNames |-> 0]
    /\ broken = {}
    /\ connected = FALSE
    /\ sup = [b \in Ids |-> "none"]
    /\ ev = EnvEvent

NextSpawn ==
    \/ BotsStart(Bot1)
    \/ BotsStatus(Bot1)
    \/ BotsStop(Bot1)
    \/ EnvProcs
    \/ EnvPath("b1")

SpecSpawn == InitSpawn /\ [][NextSpawn]_vars

\* Stop and reload of two running bots while the privilege to signal their
\* processes comes and goes.
NextDenied ==
    \/ \E sel \in {NoneSel, Bot1} : BotsStop(sel)
    \/ \E sel \in {NoneSel, Bot1} : BotsReload(sel)
    \/ \E sel \in {NoneSel, Bot1} : BotsStatus(sel)
    \/ \E v \in {"full", "nosignal"} : EnvPriv(v)
    \/ \E p \in Pids, reaped \in BOOLEAN : EnvExit(p, reaped)

SpecDenied == InitStop /\ [][NextDenied]_vars

\* The Supervised backend on two bots, with every state the daemon can
\* report for their processes.
InitSup ==
    /\ \E en \in {"true", "false"} :
          conf = ("b1" :> BotConf(en, "Collector")) @@ ("b2" :> BotConf("true", "Parser"))
    /\ disk = conf
    /\ pidfile = [b \in Ids |-> NoFile]
    /\ InitOS

SupBots == {"b1", "b2"}

NextSup ==
    \/ \E b \in SupBots : SupBotStatus(b)
    \/ \E b \in SupBots : SupBotStart(b)
    \/ \E b \in SupBots : SupBotStop(b)
    \/ \E b \in SupBots : SupBotReload(b)
    \/ \E b \in SupBots, state \in ProcessState : EnvSup(b, state)

SpecSup == InitSup /\ [][NextSup]_vars

\* bot_status of the Supervised backend one query at a time, while the
\* daemon moves the processes between its states; bot_start and bot_stop
\* run between two status calls.
NextPoll ==
    \/ \E b \in SupBots : SupStatusQuery(b)
    \/ \E b \in SupBots : poll = NoPoll /\ SupBotStart(b)
    \/ \E b \in SupBots : poll = NoPoll /\ SupBotStop(b)
    \/ \E b \in SupBots, state \in ProcessState : EnvSup(b, state)

SpecPoll == InitSup /\ [][NextPoll]_vars

\* A new SupervisorProcessManager, of a command-line or of a non-interactive
\* controller, and a daemon on which any of the checks may fail.
InitLink ==
    /\ conf = ("b1" :> BotConf("true", "Collector")) @@ ("b2" :> BotConf("true", "Parser"))
    /\ disk = conf
    /\ pidfile = [b \in Ids |-> NoFile]
    /\ procs = [p \in Pids |-> NoProc]
    /\ pathOK = Ids
    /\ piddir = TRUE
    /\ argv = <<>>
    /\ poll = NoPoll
    /\ \E env \in SUBSET Checks, interactive \in BOOLEAN : link = Link(env, interactive)
    /\ priv = "full"
    /\ restart = Idle
    /\ queues = [q \in QueueNames |-> 0]
    /\ broken = {}
    /\ connected = FALSE
    /\ sup = [b \in Ids |-> "none"]
    /\ ev = EnvEvent

NextLink ==
    \/ \E b \in SupBots : SupGetProcessState(b)
    \/ \E c \in Checks : EnvLink(c)

SpecLink == InitLink /\ [][NextLink]_vars

\* Interactive run of b1 in both backends: the bot runs in the background
\* or not, and the OS may refuse the orchestrator's signals.
InitRun ==
    /\ conf = ("b1" :> BotConf("true", "Collector")) @@ ("b2" :> BotConf("true", "Parser"))
    /\ disk = conf
    /\ argv = <<Interpreter, module_path, <<"b1">>>>
    /\ \E bg \in BOOLEAN :
          /\ procs = [p \in Pids |-> IF bg /\ p = 1 THEN [bot |-> "b1", st |-> "running"]
                                     ELSE NoProc]
          /\ pidfile = [b \in Ids |-> IF bg /\ b = "b1" THEN 1 ELSE NoFile]
    /\ pathOK = Ids
    /\ piddir = TRUE
    /\ poll = NoPoll
    /\ link = Link(Checks, TRUE)
    /\ priv \in {"full", "nosignal"}
    /\ restart = Idle
    /\ queues = [q \in QueueNames |-> 0]
    /\ broken = {}
    /\ connected = FALSE
    /\ sup = [b \in Ids |-> "none"]
    /\ ev = EnvEvent

NextRun ==
    \/ LegacyBotRun("b1")
    \/ LegacyBotStart("b1")
    \/ LegacyBotStop("b1")
    \/ LegacyBotStatus("b1")
    \/ SupBotRun("b1")
    \/ SupBotStart("b1")
    \/ \E state \in ProcessState : EnvSup("b1", state)
    \/ \E p \in Pids : EnvExit(p, TRUE)

SpecRun == InitRun /\ [][NextRun]_vars

\* One process, PID 1, with any command line of at most MaxArgc tokens, and
\* the PID file of b1 naming it; both backends examine it.
InitVerify ==
    /\ \E en \in {"true", "false"} :
          conf = ("b1" :> BotConf(en, "Collector")) @@ ("b2" :> BotConf("true", "Parser"))
    /\ disk = conf
    /\ argv \in Cmdlines
    /\ poll = NoPoll
    /\ link = Link(Checks, TRUE)
    /\ procs = [p \in Pids |-> IF p = 1 THEN [bot |-> owner(argv), st |-> "running"]
                               ELSE NoProc]
    /\ pidfile = [b \in Ids |-> IF b = "b1" THEN 1 ELSE NoFile]
    /\ pathOK = Ids
    /\ piddir = TRUE
    /\ priv = "full"
    /\ restart = Idle
    /\ queues = [q \in QueueNames |-> 0]
    /\ broken = {}
    /\ connected = FALSE
    /\ sup = [b \in Ids |-> "none"]
    /\ ev = EnvEvent

NextVerify ==
    \/ InterpretCommandline("b1")
    \/ IsBotCmdline("b1")
    \/ LegacyBotStatus("b1")
    \/ LegacyBotStop("b1")
    \/ LegacyBotReload("b1")
    \/ BotsStatus(Bot1)
    \/ BotsStop(Bot1)
    \/ BotsReload(Bot1)

SpecVerify == InitVerify /\ [][NextVerify]_vars

\* the selectors of at most MaxSelLen elements over a set of strings
RECURSIVE Lists(_, _)
Lists(T, n) ==
    IF n = 0 THEN {<<>>}
    ELSE Lists(T, n - 1) \cup {Append(l, t) : l \in {x \in Lists(T, n - 1) : Len(x) = n - 1}, t \in T}
Selectors(T) == {NoneSel} \cup {StrSel(t) : t \in T} \cup {ListSel(l) : l \in Lists(T, MaxSelLen)}

\* Selector resolution over the configurations of up to three bots.
SelTokens == Ids \cup {"collectors", "parsers", "experts"} \cup {UnknownId}

InitSel ==
    /\ \E D \in {{"b1", "b2"}, Ids} :
       \E grp \in [D -> {"Collector", "Parser"}] :
          conf = [b \in D |-> BotConf("true", grp[b])]
    /\ disk = conf
    /\ pidfile = [b \in Ids |-> NoFile]
    /\ InitOS

NextSel == \E sel \in Selectors(SelTokens) : GetBots(sel)

SpecSel == InitSel /\ [][NextSel]_vars

\* The fleet calls on two bots, with selectors that name an unknown bot.
FleetSels ==
    {NoneSel, StrSel("b1"), StrSel("parsers"), StrSel(UnknownId),
     ListSel(<<"b1", UnknownId>>), ListSel(<<UnknownId, "parsers">>)}

InitFleet ==
    /\ \E en \in {"true", "false"} :
          conf = ("b1" :> BotConf("true", "Collector")) @@ ("b2" :> BotConf(en, "Parser"))
    /\ disk = conf
    /\ pidfile = [b \in Ids |-> NoFile]
    /\ InitOS

NextFleet ==
    \/ \E sel \in FleetSels :
          \/ BotsStatus(sel)
          \/ BotsStart(sel)
          \/ BotsStop(sel)
          \/ BotsReload(sel)
          \/ RestartBegin(sel)
          \/ \E start \in BOOLEAN : BotsEnable(sel, start)
          \/ \E stop \in BOOLEAN : BotsDisable(sel, stop)
    \/ RestartPoll
    \/ RestartStart
    \/ \E p \in Pids : EnvExit(p, TRUE)

SpecFleet == InitFleet /\ [][NextFleet]_vars

\* The queue calls on the queues of two bots and a queue left behind, while
\* bots feed the queues and the transport fails on some.
FedQueues == {QueueName(b) : b \in {"b1", "b2"}} \cup {InternalName("b1"), "old-queue"}
FailQueues == {QueueName("b1"), "old-queue"}

NextQueue ==
    \/ \E sel \in {NoneSel, Bot1, StrSel(UnknownId)}, internal \in BOOLEAN, all \in BOOLEAN :
          \/ QueueClear(sel, internal, all)
          \/ QueueStatus(sel, internal, all)
          \/ GetQueues(sel, internal, all)
    \/ \E force \in BOOLEAN, dryrun \in BOOLEAN : QueuePrune(force, dryrun)
    \/ \E q \in FedQueues : EnvEnqueue(q)
    \/ \E q \in FailQueues : EnvBreak(q)

\* (it starts like the restart scenario: two enabled bots, empty queues)
SpecQueue == InitRestart /\ [][NextQueue]_vars

(***************************************************************************)
(* IntelMQCommandLineInterface.__init__ builds the argument parser; the    *)
(* line that registers "queue prune" evaluates                             *)
(* self.controller.queue_prune() with its defaults (force=False,           *)
(* dryrun=False) and stores the result.                                    *)
(***************************************************************************)
CommandLineInterface ==
    /\ restart = Idle
    /\ \E listed \in BOOLEAN, done \in SUBSET (nonempty_queues(queues) \ broken) :
       \E o \in {queue_prune(conf, queues, FALSE, FALSE, listed, done)} :
          /\ o.err = "none" => done = {}
          /\ done \subseteq {x \in QueueNames : x \notin Topology(conf)}
          /\ queues' = o.queues
          /\ connected' = o.open
          /\ ev' = Event("__init__", NoneSel, o.err, o.ret, <<>>, FALSE)
    /\ UNCHANGED <<conf, disk, procs, pidfile, pathOK, priv, restart, broken, sup, piddir, argv, poll, link>>

NextCli ==
    \/ CommandLineInterface
    \/ NextQueue
    \/ BotsStatus(NoneSel)

SpecCli == InitRestart /\ [][NextCli]_vars

\* Enable and disable on two bots whose enabled key is true, false or absent
\* in the file the controller loaded.
InitConfig ==
    /\ \E en \in [{"b1", "b2"} -> {"true", "false", "unset"}] :
          conf = ("b1" :> BotConf(en["b1"], "Collector")) @@ ("b2" :> BotConf(en["b2"], "Parser"))
    /\ disk = conf
    /\ pidfile = [b \in Ids |-> NoFile]
    /\ InitOS

ConfigSels == {NoneSel, Bot1, StrSel("parsers"), StrSel(UnknownId)}

NextConfig ==
    \/ \E sel \in ConfigSels, start \in BOOLEAN : BotsEnable(sel, start)
    \/ \E sel \in ConfigSels, stop \in BOOLEAN : BotsDisable(sel, stop)
    \/ \E p \in Pids : EnvExit(p, TRUE)

SpecConfig == InitConfig /\ [][NextConfig]_vars

(***************************************************************************)
(* IntelMQControllerNG.bot_delete                                          *)
(***************************************************************************)
\* conf.pop(bot_id)
pop(c, b) == [x \in DOMAIN c \ {b} |-> c[x]]

\* bot_delete(bot_id): get_bots(bot_id).pop(), bots_stop of that bot, then the
\* entry is popped inside edit_runtime_configuration
BotDelete(x) ==
    /\ restart = Idle
    /\ \E g \in {get_bots(conf, StrSel(x), TRUE)} :
       IF g.err # "none" \/ g.bots = <<>>
       THEN /\ ev' = Event("delete", StrSel(x),
                           IF g.err # "none" THEN g.err ELSE "IndexError", Empty, <<>>, FALSE)
            /\ UNCHANGED <<conf, disk, procs, pidfile>>
       ELSE \E oracle \in Oracles :
            \E b \in {g.bots[Len(g.bots)]} :
            \E o \in {bots_op("stop", World(0), conf, StrSel(b), oracle)} :
            \E c1 \in {IF o.err = "none" THEN pop(conf, b) ELSE conf} :
            \E e \in {edit_runtime_configuration(conf, c1, disk)} :
               /\ conf' = c1
               /\ disk' = e.disk
               /\ procs' = o.w.procs
               /\ pidfile' = o.w.pidfile
               /\ ev' = Event("delete", StrSel(x), o.err, o.ret, o.w.log, e.wrote)
    /\ UNCHANGED <<pathOK, priv, restart, queues, broken, sup, connected, piddir, argv, poll, link>>

InitDelete ==
    /\ conf = ("b1" :> BotConf("true", "Collector")) @@ ("b2" :> BotConf("true", "Parser"))
    /\ disk = conf
    /\ pidfile = [b \in Ids |-> NoFile]
    /\ InitOS

DeleteSels == {"b1", "b2", "collectors", UnknownId}

NextDelete ==
    \/ \E x \in DeleteSels : BotDelete(x)
    \/ \E sel \in {NoneSel, Bot1} : BotsStart(sel)
    \/ \E sel \in {NoneSel, Bot1} : BotsStop(sel)
    \/ BotsStatus(NoneSel)
    \/ \E p \in Pids, reaped \in BOOLEAN : EnvExit(p, reaped)

SpecDelete == InitDelete /\ [][NextDelete]_vars

---------------------------------------------------------------------------
(* Properties *)

\* what the state says of bot b before a call
Disabled(b) == conf[b].enabled = "false"
HasPid(b) == pidfile[b] > 0
\* the PID file of b names a process that runs b
OwnProcess(b) == HasPid(b) /\ procs[pidfile[b]].bot = b
OwnLive(b) == OwnProcess(b) /\ procs[pidfile[b]].st \in LiveStatus
\* the PID file of b names a live process of another program
OtherLive(b) == HasPid(b) /\ procs[pidfile[b]].bot = "other"
\* what the PID file of a bot that does not run may hold
Stale(b) == pidfile[b] = Corrupt \/ (HasPid(b) /\ procs[pidfile[b]].bot \notin Ids)
\* the call spawned a process
Spawned(e) == \E i \in 1..Len(e.log) : e.log[i].e = "spawn"
\* the call removed a PID file that named a PID which another program holds
RemovedOther(e) ==
    \E i \in 1..Len(e.log) :
        e.log[i].e = "rmpid" /\ e.log[i].pid > 0 /\ procs[e.log[i].pid].bot = "other"
Returned(e, op, b, r) == e.op = op /\ e.err = "none" /\ b \in DOMAIN e.ret /\ e.ret[b] = r

\* C1: start of a bot whose status is running returns running, spawns no
\* process, sends no signal and leaves the process table and the PID file
\* as they are.
C1_StartIdempotent ==
    [][(ev'.op = "start" /\ bot_status(World(0), conf, "b1").r = "running")
        => /\ Returned(ev', "start", "b1", "running")
           /\ ev'.log = <<>>
           /\ procs' = procs
           /\ pidfile' = pidfile]_vars

\* a start of the running bot b1 has returned
C1_Witness ==
    /\ Returned(ev, "start", "b1", "running")
    /\ OwnLive("b1")

\* C3 as amended: for a bot whose enabled flag is false status returns
\* disabled whenever the backend finds no process of the bot (Local: the PID
\* file names no process that runs the bot; Supervised: the daemon knows no
\* such process); a process found is reported as the OS or the daemon shows
\* it (Local: running or unknown, Supervised: running, stopping or stopped).
C3_DisabledUnlessProcess ==
    [][/\ (ev'.op = "status" /\ Disabled("b1"))
          => /\ ev'.err = "none"
             /\ ev'.ret["b1"] \in {"disabled", "running", "unknown"}
             /\ ~OwnProcess("b1") => ev'.ret["b1"] = "disabled"
             /\ (OwnLive("b1") /\ priv = "full" /\ "b1" \in pathOK)
                   => ev'.ret["b1"] = "running"
       /\ (ev'.op = "sup_status" /\ Disabled("b1"))
          => /\ sup'["b1"] = "none" => ev'.ret["b1"] = "disabled"
             /\ sup'["b1"] # "none" => ev'.ret["b1"] \in {"running", "stopping", "stopped"}
      ]_vars

\* status has reported the disabled bot b1 running while its process lives
C3_Witness ==
    /\ Disabled("b1")
    /\ Returned(ev, "status", "b1", "running")
    /\ OwnLive("b1")

\* C3 as claimed: status of a bot whose enabled flag is false returns
\* disabled whatever the OS or the daemon reports.
C3_DisabledAlways ==
    (ev.op \in {"status", "sup_status"} /\ Disabled("b1")) => ev.ret["b1"] = "disabled"

\* C4: status of a bot whose enabled flag is false returns disabled when its
\* PID file is stale: unparsable, or naming a PID that no process or a
\* process of another program holds.
C4_DisabledStalePid ==
    [][(ev'.op = "status" /\ Disabled("b1") /\ Stale("b1"))
        => Returned(ev', "status", "b1", "disabled")]_vars

\* status has returned disabled after discarding the PID file of b1, which
\* named a PID that another program's process holds
C4_Witness ==
    /\ Disabled("b1")
    /\ Returned(ev, "status", "b1", "disabled")
    /\ RemovedOther(ev)

\* C5: when the PID file names a live process that cannot be confirmed to be
\* the bot (another command line, or one that cannot be read) status returns
\* unknown.
C5_UnconfirmedIsUnknown ==
    [][(/\ ev'.op = "status"
        /\ HasPid("b1")
        /\ procs[pidfile["b1"]].st \in LiveStatus
        /\ (procs[pidfile["b1"]].bot = "other" \/ priv = "nocmdline"))
        => Returned(ev', "status", "b1", "unknown")]_vars

\* C6: start spawns no process for a bot whose PID file names a live process
\* of another program.
C6_NoSpawnOverOther ==
    [][(ev'.op = "start" /\ OtherLive("b1")) => ~Spawned(ev')]_vars

\* C2: restart starts the bots only after a round of its polling loop in
\* which no bot reported running, or after the RestartPolls rounds of the
\* loop; and its start spawns no process, sends no signal and changes no PID
\* file for a bot whose status reports running then.
C2_RestartNoSpawnOverLive ==
    /\ [](restart.phase = "start"
            => \/ \A b \in DOMAIN restart.status : restart.status[b] # "running"
               \/ restart.i = RestartPolls)
    /\ [][(restart.phase = "start" /\ ev'.op = "restart")
           => \A b \in DOMAIN conf :
                 bot_status(World(0), conf, b).r = "running"
                 => /\ \A i \in 1..Len(ev'.log) : ev'.log[i].bot # b
                    /\ pidfile'[b] = pidfile[b]
                    /\ procs'[pidfile[b]] = procs[pidfile[b]]
                    /\ (ev'.err = "none" /\ b \in DOMAIN ev'.ret)
                          => ev'.ret[b] = "running"]_vars

\* restart has returned running for b1, whose process ignored the signal for
\* all rounds of the polling loop
C2_Witness ==
    /\ Returned(ev, "restart", "b1", "running")
    /\ OwnProcess("b1")
    /\ procs[pidfile["b1"]].st = "terminating"
\* C7 as amended: after stop has returned stopping for a bot, the status
\* polls eventually return stopped, or disabled when the bot's enabled flag is
\* false, with the PID file removed; a status poll does not remove the PID
\* file while the bot's process has not ended, never writes one, and removes
\* nothing once the file is gone.
C7_StopConverges ==
    /\ Returned(ev, "stop", "b1", "stopping")
          ~> (/\ ev.op = "status"
              /\ ev.err = "none"
              /\ ev.ret["b1"] = (IF Disabled("b1") THEN "disabled" ELSE "stopped")
              /\ pidfile["b1"] = NoFile)
    /\ [][ev'.op = "status"
           => /\ (OwnProcess("b1") /\ procs[pidfile["b1"]].st # "zombie")
                    => pidfile'["b1"] = pidfile["b1"]
              /\ pidfile'["b1"] \in {pidfile["b1"], NoFile}
              /\ pidfile["b1"] = NoFile
                    => \A i \in 1..Len(ev'.log) :
                          ~(ev'.log[i].e = "rmpid" /\ ev'.log[i].bot = "b1")]_vars

\* a status poll has found the process of the stopped bot b1 gone, removed
\* the PID file and returned stopped
C7_Witness ==
    /\ Returned(ev, "status", "b1", "stopped")
    /\ \E i \in 1..Len(ev.log) : ev.log[i] = [e |-> "rmpid", bot |-> "b1", pid |-> 1]
    /\ pidfile["b1"] = NoFile
    /\ \A p \in Pids : procs[p].bot # "b1"

\* C7 as claimed: after stop has returned stopping for a bot, the status polls
\* eventually return stopped.
C7_StopConvergesToStopped ==
    Returned(ev, "stop", "b1", "stopping") ~> Returned(ev, "status", "b1", "stopped")
\* what a selector element stands for: the members of a group, a bot id
Known(x) == x \in GroupNames \/ x \in DOMAIN conf
Resolution(x) ==
    IF x \in GroupNames THEN {b \in DOMAIN conf : conf[b].group = BOT_GROUP[x]}
    ELSE {x}
Position(b) == CHOOSE i \in 1..Len(IdOrder) : IdOrder[i] = b
\* the list l holds the bot ids of S, each once, in ascending order
SortedListOf(l, S) ==
    /\ Range(l) = S
    /\ \A i, j \in 1..Len(l) : i < j => Position(l[i]) < Position(l[j])
\* get_bots returned the list of the bot ids of S / raised BotNotExists
Resolved(e, S) == e.err = "none" /\ SortedListOf(e.ret, S)
Raised(e) == e.err = "BotNotExists" /\ e.ret = <<>>
UnionOf(v) == UNION {Resolution(v[i]) : i \in 1..Len(v)}
AllKnown(v) == \A i \in 1..Len(v) : Known(v[i])

\* C8 as amended: an absent selector and an empty list resolve to all
\* configured bot ids, a known group name to the group's members, a known bot
\* id to itself, a list that is not empty to the sorted union without
\* duplicates of what its elements resolve to; an element that is neither a
\* known group nor a known bot id raises the unknown-bot error.
C8_SelectorResolution ==
    ev.op = "get_bots" =>
       CASE ev.sel.kind = "none" -> Resolved(ev, DOMAIN conf)
         [] ev.sel.kind = "str" ->
               IF Known(ev.sel.v[1]) THEN Resolved(ev, Resolution(ev.sel.v[1]))
               ELSE Raised(ev)
         [] ev.sel.kind = "list" ->
               IF ev.sel.v = <<>> THEN Resolved(ev, DOMAIN conf)
               ELSE IF AllKnown(ev.sel.v) THEN Resolved(ev, UnionOf(ev.sel.v))
               ELSE Raised(ev)

\* the list of a group and one of its members has resolved to the group's
\* two members, once each
C8_Witness ==
    /\ ev.op = "get_bots"
    /\ ev.sel = ListSel(<<"parsers", "b2">>)
    /\ ev.ret = <<"b2", "b3">>

\* C8 as claimed: a list resolves to the sorted union without duplicates of
\* what its elements resolve to.
C8_ListIsUnion ==
    (ev.op = "get_bots" /\ ev.sel.kind = "list" /\ AllKnown(ev.sel.v))
        => Resolved(ev, UnionOf(ev.sel.v))

\* C9: a fleet call whose selector holds an unknown element raises the
\* unknown-bot error and has no effect: no process is spawned, signalled or
\* reaped, no PID file removed, and neither the configuration in memory nor
\* the file on disk is changed.
HasUnknown(sel) == sel.kind # "none" /\ ~AllKnown(sel.v)
FleetOps == {"status", "start", "stop", "reload", "restart", "enable", "disable"}

C9_UnknownFailsWhole ==
    [][(ev'.op \in FleetOps /\ HasUnknown(ev'.sel))
        => /\ ev'.err = "BotNotExists"
           /\ ev'.ret = Empty
           /\ ev'.log = <<>>
           /\ ~ev'.wrote
           /\ UNCHANGED <<conf, disk, procs, pidfile, restart>>]_vars

\* disable with stop of the running bot b1 and an unknown bot has failed:
\* b1 is still enabled, on disk too, and still runs
C9_Witness ==
    /\ ev.op = "disable"
    /\ ev.sel = ListSel(<<"b1", UnknownId>>)
    /\ ev.err = "BotNotExists"
    /\ conf["b1"].enabled = "true"
    /\ disk = conf
    /\ OwnLive("b1")
    /\ procs[pidfile["b1"]].st = "running"

\* C10: queue_clear returns a result for every queue derived from the
\* selector: "failed" for a queue whose clear raised, which keeps its
\* messages, "cleared" for every other, which is empty afterwards; queues
\* that are not derived from the selector are left alone.
Derived(e) ==
    LET bots == IF e.sel.kind = "none" THEN DOMAIN conf ELSE UnionOf(e.sel.v) IN
    IF "all" \in e.opt THEN {QueueName(b) : b \in bots} \cup {InternalName(b) : b \in bots}
    ELSE IF "internal" \in e.opt THEN {InternalName(b) : b \in bots}
    ELSE {QueueName(b) : b \in bots}

C10_ClearEachQueue ==
    [][(ev'.op = "queue_clear" /\ ~HasUnknown(ev'.sel))
        => /\ ev'.err = "none"
           /\ DOMAIN ev'.ret = Derived(ev')
           /\ \A q \in Derived(ev') :
                 IF q \in broken
                 THEN ev'.ret[q] = "failed" /\ queues'[q] = queues[q]
                 ELSE ev'.ret[q] = "cleared" /\ queues'[q] = 0
           /\ \A q \in QueueNames \ Derived(ev') : queues'[q] = queues[q]]_vars

\* a clear of the queues of both bots has failed on the first and cleared
\* the second
C10_Witness ==
    /\ ev.op = "queue_clear"
    /\ ev.ret = ("b1-queue" :> "failed") @@ ("b2-queue" :> "cleared")
    /\ queues["b1-queue"] = MaxMsgs
    /\ queues["b2-queue"] = 0

\* the bot ids a selector that resolves stands for
Targets(sel) == IF sel.kind = "none" THEN DOMAIN conf ELSE UnionOf(sel.v)

Signals(e, b, s) ==
    Cardinality({i \in 1..Len(e.log) : e.log[i].e = s /\ e.log[i].bot = b})

\* C12: a stop call, and the stop that begins a restart, send the termination
\* signal to a bot at most once; the status polls of restart and its final
\* start send no termination signal, however often a poll finds a bot
\* running.
C12_StopSentOnce ==
    [][/\ ev'.op \in {"stop", "restart_stop", "restart", "restart_poll"}
          => \A b \in Ids : Signals(ev', b, "term") <= 1
       /\ (ev'.op = "restart_poll" \/ (ev'.op = "restart" /\ restart.phase = "start"))
          => \A b \in Ids : Signals(ev', b, "term") = 0]_vars

\* the third poll of a restart has found b1, which was sent the signal by
\* the stop that began the restart, still running
C12_Witness ==
    /\ ev.op = "restart_poll"
    /\ restart.phase = "poll"
    /\ restart.i = 3
    /\ ev.ret["b1"] = "running"
    /\ procs[pidfile["b1"]].st = "terminating"

\* C13: a restart that has begun returns; its loop does at most RestartPolls
\* rounds, and goes on to the start after the last of them also when a bot
\* still reports running.
C13_RestartTerminates ==
    /\ [](restart.i <= RestartPolls)
    /\ [](restart.phase = "poll" => restart.i < RestartPolls)
    /\ (restart.phase # "idle") ~> (restart = Idle)

\* the loop has ended after all its rounds with b1 still running
C13_Witness ==
    /\ restart.phase = "start"
    /\ restart.i = RestartPolls
    /\ restart.status["b1"] = "running"
    /\ OwnLive("b1")

\* C14: when the loop of restart has done all its rounds and a target bot
\* still runs, restart reports unknown or failed for that bot.
C14_ExhaustedIsUnknownOrFailed ==
    [][(/\ restart.phase = "start" /\ restart.i = RestartPolls
        /\ ev'.op = "restart" /\ ev'.err = "none")
        => \A b \in DOMAIN ev'.ret :
              (restart.status[b] = "running" /\ bot_status(World(0), conf, b).r = "running")
                 => ev'.ret[b] \in {"unknown", "failed"}]_vars

\* C15: every stop of a restart is issued before any start (the step that
\* stops spawns nothing, the step that starts sends no termination signal),
\* and the start is issued for every bot the selector resolved to, whatever
\* the stop returned for it.
C15_RestartStartsAllTargets ==
    [][/\ ev'.op = "restart_stop" => ~Spawned(ev')
       /\ (ev'.op = "restart" /\ restart.phase = "start")
          => /\ \A b \in Ids : Signals(ev', b, "term") = 0
             /\ ev'.err = "none" => Range(restart.targets) \subseteq DOMAIN ev'.ret]_vars

\* the eight canonical states
RunState == {"disabled", "stopped", "starting", "running", "stopping", "reloading",
             "unknown", "failed"}

\* C16: status, start, stop and reload on a selector that resolves return a
\* mapping whose keys are the bot ids the selector resolves to and whose
\* values are canonical states.
C16_FleetResultMapping ==
    [][(ev'.op \in {"status", "start", "stop", "reload"} /\ ~HasUnknown(ev'.sel))
        => /\ ev'.err = "none"
           /\ DOMAIN ev'.ret = Targets(ev'.sel)
           /\ \A b \in DOMAIN ev'.ret : ev'.ret[b] \in RunState]_vars

\* C17 as amended: the queue names derived for a selector are, for every
\* bot id it resolves to, {id}-queue exactly when internal queues are not
\* requested or all is requested, and {id}-queue-internal exactly when
\* internal queues are requested or all is requested; no other name.
C17_QueueNames ==
    (ev.op = "get_queues" /\ ~HasUnknown(ev.sel))
        => /\ ev.err = "none"
           /\ \A q \in QueueNames :
                 q \in Range(ev.ret)
                    <=> \E b \in Targets(ev.sel) :
                           \/ q = QueueName(b) /\ ("internal" \notin ev.opt \/ "all" \in ev.opt)
                           \/ q = InternalName(b) /\ ("internal" \in ev.opt \/ "all" \in ev.opt)

\* the queues of b1 with internal set are its internal queue alone
C17_Witness ==
    /\ ev.op = "get_queues"
    /\ ev.sel = Bot1
    /\ ev.opt = {"internal"}
    /\ ev.ret = <<"b1-queue-internal">>

\* C17 as claimed: the derived names always hold {id}-queue of every bot id
\* the selector resolves to, {id}-queue-internal exactly when internal or all
\* is requested, and no other name.
C17_QueueNamesAlways ==
    (ev.op = "get_queues" /\ ~HasUnknown(ev.sel))
        => /\ ev.err = "none"
           /\ \A q \in QueueNames :
                 q \in Range(ev.ret)
                    <=> \E b \in Targets(ev.sel) :
                           \/ q = QueueName(b)
                           \/ q = InternalName(b) /\ ("internal" \in ev.opt \/ "all" \in ev.opt)

\* C18: no call of queue_status, queue_clear or queue_prune ends with the
\* connection it opened to the transport still open, also when an operation
\* on a queue fails.
C18_TransportClosed ==
    ev.op \in {"queue_status", "queue_clear", "queue_prune"} => ~connected

\* the queue names of the configured bots
Configured == {QueueName(b) : b \in DOMAIN conf} \cup {InternalName(b) : b \in DOMAIN conf}
\* the queues with messages that are no queue of a configured bot
Orphans == {x \in QueueNames : queues[x] > 0 /\ x \notin Configured}

\* C19 as amended: queue_prune without force never deletes a queue of a
\* configured bot, also when it raises; when it returns, its result maps
\* exactly the queues with messages that are no queue of a configured bot to
\* "deleted", and it has deleted exactly those queues, or with dryrun no
\* queue at all.
C19_PruneOrphans ==
    [][(ev'.op = "queue_prune" /\ "force" \notin ev'.opt)
        => /\ \A x \in Configured : queues'[x] = queues[x]
           /\ ev'.err = "none"
                 => /\ DOMAIN ev'.ret = Orphans
                    /\ \A x \in Orphans : ev'.ret[x] = "deleted"
                    /\ \A x \in QueueNames :
                          queues'[x] = IF x \in Orphans /\ "dryrun" \notin ev'.opt
                                       THEN 0 ELSE queues[x]]_vars

\* a prune has deleted the queue left behind and kept the messages in the
\* queue of b1
C19_Witness ==
    /\ ev.op = "queue_prune"
    /\ ev.opt = {}
    /\ ev.ret = ("old-queue" :> "deleted")
    /\ queues["old-queue"] = 0
    /\ queues["b1-queue"] = MaxMsgs

\* C19 as claimed: queue_prune without force that returns has deleted
\* exactly the queues with messages that are no queue of a configured bot,
\* and its result maps exactly the deleted queues to "deleted".
C19_PruneDeletesOrphans ==
    [][(ev'.op = "queue_prune" /\ "force" \notin ev'.opt /\ ev'.err = "none")
        => /\ \A x \in QueueNames :
                 queues'[x] = IF x \in Orphans THEN 0 ELSE queues[x]
           /\ DOMAIN ev'.ret = {x \in QueueNames : queues[x] > 0 /\ queues'[x] = 0}
           /\ \A x \in DOMAIN ev'.ret : ev'.ret[x] = "deleted"]_vars

\* C20 as amended: stop on a bot whose status is running, when the OS lets
\* the orchestrator signal the process, sends the termination signal once,
\* returns stopping and leaves the process, not yet ended, and the PID file
\* in place; when the signal is denied it returns failed and changes
\* nothing; on a bot whose status is stopped or disabled it returns that
\* state and sends no signal.
C20_LocalStop ==
    [][ev'.op = "stop"
        => \E s \in {bot_status(World(0), conf, "b1").r} :
           /\ (s = "running" /\ priv # "nosignal")
                 => /\ Returned(ev', "stop", "b1", "stopping")
                    /\ ev'.log = <<[e |-> "term", bot |-> "b1", pid |-> pidfile["b1"]]>>
                    /\ pidfile' = pidfile
                    /\ procs' = [procs EXCEPT ![pidfile["b1"]].st = "terminating"]
           /\ (s = "running" /\ priv = "nosignal")
                 => /\ Returned(ev', "stop", "b1", "failed")
                    /\ ev'.log = <<>>
                    /\ pidfile' = pidfile
                    /\ procs' = procs
           /\ s \in {"stopped", "disabled"}
                 => /\ Returned(ev', "stop", "b1", s)
                    /\ Signals(ev', "b1", "term") = 0
                    /\ procs' = procs]_vars

\* stop has signalled the running bot b1 and returned stopping: the process
\* is there, the PID file names it
C20_Witness ==
    /\ Returned(ev, "stop", "b1", "stopping")
    /\ ev.log = <<[e |-> "term", bot |-> "b1", pid |-> pidfile["b1"]]>>
    /\ OwnLive("b1")

\* C20 as claimed: stop on a bot whose status is running sends the
\* termination signal once and returns stopping, the process and the PID
\* file in place; on a bot whose status is stopped or disabled it returns
\* that state and sends no signal.
C20_LocalStopAlwaysStopping ==
    [][ev'.op = "stop"
        => \E s \in {bot_status(World(0), conf, "b1").r} :
           /\ s = "running"
                 => /\ Returned(ev', "stop", "b1", "stopping")
                    /\ Signals(ev', "b1", "term") = 1
                    /\ pidfile' = pidfile
                    /\ procs'[pidfile["b1"]] # NoProc
           /\ s \in {"stopped", "disabled"}
                 => /\ Returned(ev', "stop", "b1", s)
                    /\ Signals(ev', "b1", "term") = 0]_vars

\* C21: a stop or reload that is denied the privilege to signal a running
\* bot returns failed for that bot, with its process and its PID file as
\* they were, and the call still returns a result for every other bot of
\* the selector.
C21_DeniedIsFailed ==
    [][(ev'.op \in {"stop", "reload"} /\ priv = "nosignal")
        => /\ ev'.err = "none"
           /\ DOMAIN ev'.ret = Targets(ev'.sel)
           /\ \A b \in Targets(ev'.sel) :
                 bot_status(World(0), conf, b).r = "running"
                    => /\ ev'.ret[b] = "failed"
                       /\ pidfile'[b] = pidfile[b]
                       /\ procs'[pidfile[b]] = procs[pidfile[b]]]_vars

\* the PID file of b names a process of b that has ended or is suspended and
\* that the orchestrator can identify: status is unknown unless a wait
\* finishes the process
Unfinished(b) ==
    /\ OwnProcess(b)
    /\ procs[pidfile[b]].st \in TerminalStatus
    /\ b \in pathOK
    /\ priv # "nocmdline"
\* a wait of the call finished a process
Reaped(e) == \E i \in 1..Len(e.log) : e.log[i].e = "reap"

\* C22: start on a bot whose status is unknown, when none of its waits
\* finishes the process, returns failed, spawns no process and leaves the
\* PID file and the process table as they are.
C22_StartUnknownNotReaped ==
    [][(ev'.op = "start" /\ Unfinished("b1") /\ ~Reaped(ev'))
        => /\ Returned(ev', "start", "b1", "failed")
           /\ ~Spawned(ev')
           /\ pidfile' = pidfile
           /\ procs' = procs]_vars

\* start has returned failed for b1, whose process is a zombie that no wait
\* finished; the PID file still names it
C22_Witness ==
    /\ Returned(ev, "start", "b1", "failed")
    /\ ev.log = <<>>
    /\ Unfinished("b1")
    /\ procs[pidfile["b1"]].st = "zombie"

\* C23: a start whose spawn fails because the module is not found returns
\* failed and leaves no PID file for the bot; a start that spawned a process
\* returns starting with the PID of the new process in the PID file.
C23_SpawnOutcome ==
    [][(ev'.op = "start" /\ ev'.err = "none")
        => /\ ("b1" \notin pathOK /\ ev'.ret["b1"] = "failed")
                 => /\ ~Spawned(ev')
                    /\ pidfile'["b1"] = NoFile
           /\ Spawned(ev')
                 => /\ ev'.ret["b1"] = "starting"
                    /\ pidfile'["b1"] > 0
                    /\ procs'[pidfile'["b1"]] = [bot |-> "b1", st |-> "running"]
                    /\ procs[pidfile'["b1"]] = NoProc]_vars

Rules(cmdline, bot_id) ==
    IF \/ Len(cmdline) >= 3 /\ endswith(cmdline[2], Module) /\ cmdline[3] = <<bot_id>>
       \/ /\ Len(cmdline) >= 4 /\ endswith(cmdline[2], "intelmqctl")
          /\ cmdline[3] = <<"run">> /\ cmdline[4] = <<bot_id>>
    THEN "Confirmed"
    ELSE IF Len(cmdline) >= 2 THEN "Mismatched"
    ELSE "Ambiguous"

\* the outcome a return value of _interpret_commandline stands for
Outcome(r) ==
    IF r = "True" THEN "Confirmed"
    ELSE IF r = "Unhandled error" THEN "Ambiguous"
    ELSE "Mismatched"

\* C26, for IntelMQProcessManager._interpret_commandline alone: its return
\* value stands for the outcome the rules give.
C26_LegacyRules ==
    ev.op = "_interpret_commandline" => Outcome(ev.ret["b1"]) = Rules(argv, "b1")

\* C26: both checks of a command line follow the rules: Confirmed exactly
\* when the second token suffix-matches the module and the third is the bot
\* id, or the second is the orchestrator CLI, the third run and the fourth
\* the bot id; otherwise Mismatched with a second token, Ambiguous without.
C26_IdentityRules ==
    /\ C26_LegacyRules
    /\ ev.op = "is_bot_cmdline"
          => (ev.ret["b1"] = "True" <=> Rules(argv, "b1") = "Confirmed")

\* the PID file of b1 names a live process that the rules do not confirm
Unconfirmed ==
    /\ pidfile["b1"] > 0
    /\ procs[pidfile["b1"]] # NoProc
    /\ Rules(argv, "b1") \in {"Mismatched", "Ambiguous"}

BackendOps == {"status", "stop", "reload", "legacy_status", "legacy_stop", "legacy_reload"}

\* C25 as amended: when the rules give Mismatched or Ambiguous for the
\* process the PID file names, no operation of either Local backend treats
\* the bot as running: it returns stopped, disabled or unknown, never
\* running, sends the process no signal and leaves it as it is.
C25_UnconfirmedNotRunning ==
    [][(Unconfirmed /\ ev'.op \in BackendOps)
        => /\ ev'.err = "none"
           /\ ev'.ret["b1"] \in {"stopped", "disabled", "unknown"}
           /\ Signals(ev', "b1", "term") = 0
           /\ Signals(ev', "b1", "hup") = 0
           /\ procs' = procs]_vars

\* IntelMQProcessManager.bot_status has returned unknown for a live process
\* whose command line has a second token but matches neither pattern, and
\* the PID file is still there
C25_Witness ==
    /\ Returned(ev, "legacy_status", "b1", "unknown")
    /\ Unconfirmed
    /\ Rules(argv, "b1") = "Mismatched"
    /\ procs[1].st = "running"

\* C25 as claimed: when the rules give Mismatched or Ambiguous, the caller
\* discards the PID record and reports the bot stopped or disabled.
C25_UnconfirmedDiscarded ==
    [][(Unconfirmed /\ ev'.op \in BackendOps)
        => /\ pidfile'["b1"] = NoFile
           /\ ev'.err = "none"
           /\ ev'.ret["b1"] \in {"stopped", "disabled"}]_vars

\* C27: for a bot with no process at all (the daemon has no process of that
\* name; there is no PID file) the Supervised backend and both Local
\* backends return the same status: disabled when the enabled flag is
\* false, stopped otherwise.
C27_NoProcessSameStatus ==
    [][/\ (ev'.op = "sup_status" /\ sup["b1"] = "none")
             => Returned(ev', "sup_status", "b1",
                         IF Disabled("b1") THEN "disabled" ELSE "stopped")
       /\ (ev'.op = "status" /\ pidfile["b1"] = NoFile)
             => Returned(ev', "status", "b1",
                         IF Disabled("b1") THEN "disabled" ELSE "stopped")
       /\ pidfile["b1"] = NoFile
             => /\ bot_status(World(0), conf, "b1").r = sup_bot_status(conf, "b1", "none")
                /\ legacy_bot_status(World(0), conf, "b1").r
                      = sup_bot_status(conf, "b1", "none")]_vars

\* the Supervised status of the disabled bot b1, of which the daemon has no
\* process and the Local backend no PID file, has returned disabled
C27_Witness ==
    /\ Returned(ev, "sup_status", "b1", "disabled")
    /\ sup["b1"] = "none"
    /\ pidfile["b1"] = NoFile
    /\ Disabled("b1")

\* the call recorded in e was made on bot b alone
On(e, op, b) == e.op = op /\ e.sel = StrSel(b)

\* C28: while the daemon reports b1 STARTING, RUNNING or BACKOFF, status
\* does not return stopped for it, stop stops its process and removes the
\* definition, and reload signals it.
C28_IsRunningEverywhere ==
    [][is_running(sup["b1"])
        => /\ On(ev', "sup_status", "b1") => ev'.ret["b1"] # "stopped"
           /\ On(ev', "sup_stop", "b1")
                 => ev'.log = <<"stopProcess", "removeProcessFromGroup">>
           /\ On(ev', "sup_reload", "b1") => ev'.log = <<"signalProcess">>]_vars

\* C28, stop and reload alone
C28_StopReloadOnIsRunning ==
    [][is_running(sup["b1"])
        => /\ On(ev', "sup_stop", "b1")
                 => ev'.log = <<"stopProcess", "removeProcessFromGroup">>
           /\ On(ev', "sup_reload", "b1") => ev'.log = <<"signalProcess">>]_vars

\* C29, the order of the calls alone: start of a bot whose process the
\* daemon holds in a state that is not STARTING, RUNNING or BACKOFF removes
\* the definition and then registers the new one.
C29_StaleDefinitionRemovedFirst ==
    [][(On(ev', "sup_start", "b1") /\ sup["b1"] \in StoppedStates)
        => /\ ev'.err = "none"
           /\ ev'.log = <<"removeProcessFromGroup", "addProgramToGroup">>]_vars

\* C29: start returns running and calls nothing when the daemon reports
\* RUNNING; otherwise it registers the definition only when the daemon holds
\* none for the bot, after removing the one it held, and returns starting.
C29_StartRegistersOnce ==
    [][On(ev', "sup_start", "b1")
        => /\ sup["b1"] = "RUNNING"
                 => /\ Returned(ev', "sup_start", "b1", "running")
                    /\ ev'.log = <<>>
                    /\ sup' = sup
           /\ sup["b1"] # "RUNNING"
                 => /\ ev'.log = IF sup["b1"] = "none" THEN <<"addProgramToGroup">>
                                 ELSE <<"removeProcessFromGroup", "addProgramToGroup">>
                    /\ Returned(ev', "sup_start", "b1", "starting")]_vars

\* C30, the running bot alone: stop of a bot the daemon reports STARTING,
\* RUNNING or BACKOFF calls stopProcess and then removeProcessFromGroup,
\* leaves no definition and returns what status returns then.
C30_StopRemovesDefinition ==
    [][(On(ev', "sup_stop", "b1") /\ is_running(sup["b1"]))
        => /\ ev'.log = <<"stopProcess", "removeProcessFromGroup">>
           /\ sup'["b1"] = "none"
           /\ Returned(ev', "sup_stop", "b1", sup_bot_status(conf, "b1", "none"))]_vars

\* C30: as above for a running bot; on a bot that is not running stop
\* returns disabled when the enabled flag is false and stopped otherwise.
C30_SupervisedStop ==
    [][On(ev', "sup_stop", "b1")
        => /\ is_running(sup["b1"])
                 => /\ ev'.log = <<"stopProcess", "removeProcessFromGroup">>
                    /\ sup'["b1"] = "none"
                    /\ Returned(ev', "sup_stop", "b1", sup_bot_status(conf, "b1", "none"))
           /\ ~is_running(sup["b1"])
                 => Returned(ev', "sup_stop", "b1",
                             IF Disabled("b1") THEN "disabled" ELSE "stopped")]_vars

\* C31: reload of a bot that the daemon does not report STARTING, RUNNING or
\* BACKOFF makes no call that signals, adds or removes, leaves the daemon
\* as it is and returns what status returns.
C31_SupervisedReloadNotRunning ==
    [][(On(ev', "sup_reload", "b1") /\ ~is_running(sup["b1"]))
        => /\ ev'.log = <<>>
           /\ sup' = sup
           /\ Returned(ev', "sup_reload", "b1", sup_bot_status(conf, "b1", sup["b1"]))]_vars

\* C31, the bot without a process definition alone
C31_ReloadNoDefinition ==
    [][(On(ev', "sup_reload", "b1") /\ sup["b1"] = "none")
        => /\ ev'.log = <<>>
           /\ sup' = sup
           /\ Returned(ev', "sup_reload", "b1", sup_bot_status(conf, "b1", "none"))]_vars

\* C32: a status call of the Supervised backend ends with a status, after
\* fewer queries of the daemon than RecursionLimit, also while the daemon
\* keeps reporting STARTING.
C32_StatusReturns ==
    /\ poll.n < RecursionLimit
    /\ ev.op = "sup_status_poll" => ev.err = "none"

\* C33: a call on a bot reaches the daemon only when every first-use check
\* has passed on this backend object, and a failed check ends the
\* orchestrator.
C33_ChecksBeforeRpc ==
    [][ev'.op = "_get_process_state"
        => /\ ev'.log # <<>> => link'.passed = Checks
           /\ ev'.err # "none" => ~link'.alive]_vars

\* C33, the calls alone: a call on a bot reaches the daemon only when every
\* first-use check other than that of the daemon's version has passed.
C33_AbortingChecksBeforeRpc ==
    [][(ev'.op = "_get_process_state" /\ ev'.log # <<>>)
        => Checks \ {"api"} \subseteq link'.passed]_vars

\* IntelMQProcessManager takes b1 for running in the background
LegacyActive(b) ==
    /\ pidfile[b] > 0
    /\ __status_process(World(0), pidfile[b], b) = "True"

\* the entries of the call's log before and after the bot ran inline
InlineAt(e) == CHOOSE i \in 1..Len(e.log) : e.log[i].e = "inline"
SpawnsAfterInline(e) ==
    Cardinality({i \in 1..Len(e.log) : i > InlineAt(e) /\ e.log[i].e = "spawn"})

\* C34, the Supervised backend alone: run of a bot the daemon reports
\* STARTING, RUNNING or BACKOFF stops it and removes its definition before
\* the inline run and registers it again after; run of any other bot calls
\* nothing.
C34_SupervisedRun ==
    [][On(ev', "sup_run", "b1")
        => ev'.log = IF is_running(sup["b1"])
                     THEN <<"stopProcess", "removeProcessFromGroup", "inline",
                            "addProgramToGroup">>
                     ELSE <<"inline">>]_vars

\* C34: when the bot is active in the background, no process of it is alive
\* while it runs inline and it is started once afterwards; when it is not
\* active, run starts no process.
C34_RunPausesAndResumes ==
    [][/\ (On(ev', "legacy_run", "b1") /\ ev'.ret["b1"] = "0")
             => IF LegacyActive("b1")
                THEN /\ ev'.log[InlineAt(ev')].pid = 0
                     /\ SpawnsAfterInline(ev') = 1
                ELSE ~Spawned(ev')
       /\ On(ev', "sup_run", "b1")
             => ev'.log = IF is_running(sup["b1"])
                          THEN <<"stopProcess", "removeProcessFromGroup", "inline",
                                 "addProgramToGroup">>
                          ELSE <<"inline">>]_vars

C36_RestartWithinTargets ==
    [][(restart.phase \in {"poll", "start"} /\ ev'.op \in {"restart_poll", "restart"})
        => /\ DOMAIN ev'.ret \subseteq Range(restart.targets)
           /\ \A i \in 1..Len(ev'.log) : ev'.log[i].bot \in Range(restart.targets)]_vars

\* the processes of bot b that have not ended
LiveOf(b) == {p \in Pids : procs[p] # NoProc /\ procs[p].bot = b /\ procs[p].st # "zombie"}

\* C37: at most one process launched for b1 is alive.
C37_NoDoubleLaunch == Cardinality(LiveOf("b1")) <= 1

\* C38: a start of b1 made while its enabled flag is false spawns no process.
C38_StartNeverSpawnsDisabled ==
    [][(Disabled("b1") /\ On(ev', "start", "b1")) => ~Spawned(ev')]_vars

\* the bots whose configuration entry the step removes
Deleted == DOMAIN conf \ DOMAIN conf'

\* C39: when bot_delete returns, the bot whose entry it removed has no live
\* process and no PID file.
C39_DeletedBotIsGone ==
    [][(ev'.op = "delete" /\ ev'.err = "none")
        => \A b \in Deleted : LiveOf(b)' = {} /\ pidfile'[b] = NoFile]_vars

\* the queues the step takes messages out of
Drained == {x \in QueueNames : queues'[x] < queues[x]}

\* C40: only a queue_clear or a queue_prune request takes messages out of a
\* queue; building the command-line interface and the other commands take
\* none out.
C40_OnlyClearAndPruneDrain ==
    [][Drained # {} => ev'.op \in {"queue_clear", "queue_prune"}]_vars

====
